---- MODULE Spec2Model ----
(***************************************************************************)
(* Model of the analytics agent pipeline of ai_service:                    *)
(*   - AgentOrchestrator.process_query and its deterministic stages        *)
(*     (agent/orchestrator.py), specification Spec;                        *)
(*   - the completion-service backed stages IntentClassifier.classify,     *)
(*     QueryPlanner.plan, ShopifyQLGenerator.generate and                  *)
(*     QueryExecutor.execute, each applied to bounded inputs,              *)
(*     specification SpecStages.                                           *)
(*                                                                         *)
(* Python values are tagged records (see "Python values" below), so that a *)
(* field that may hold a list, a mapping or None can be inspected the way  *)
(* the code inspects it.  Confidences are in hundredths (0.92 is 92),      *)
(* daily velocities and days until stockout in tenths (8.3 is 83), the     *)
(* safety stock multiplier in hundredths; the confidence of a forecast of  *)
(* QueryExecutor is an exact fraction; every other number is a unit.       *)
(* Strings the code searches are sequences of chunks (see "Text").         *)
(***************************************************************************)
EXTENDS Integers, Sequences, FiniteSets, TLC

VARIABLES
  pc,                \* position of the process_query call in progress
  question,          \* its arguments
  shop_domain,
  intent,            \* its locals, Unset until assigned
  plan,
  query,
  execution_result,
  insights,
  exc,               \* the exception caught by its except clause
  response,          \* what it returned to the caller
  calls,             \* the stage calls it made, in order: stage, args, outcome
  call,              \* the stage call made on a component of its own (SpecStages)
  server             \* the service process: its tasks' frames (SpecConcurrent)

vars == <<pc, question, shop_domain, intent, plan, query, execution_result,
          insights, exc, response, calls, call, server>>

(***************************************************************************)
(* Python values                                                           *)
(***************************************************************************)
PyNone == [t |-> "none"]
PyBool(b) == [t |-> "bool", b |-> b]
PyNum(n) == [t |-> "num", n |-> n]
PyStr(s) == [t |-> "str", s |-> s]
PyList(items) == [t |-> "list", items |-> items]
PyDict(d) == [t |-> "dict", d |-> d]
\* an f-string: the template and the values formatted into it
PyFmt(fmt, args) == [t |-> "fstr", fmt |-> fmt, args |-> args]
\* a local variable that has not been assigned yet
Unset == [t |-> "unset"]

EmptyDict == PyDict([k \in {} |-> PyNone])

IsDict(v) == v.t = "dict"
IsList(v) == v.t = "list"
IsNum(v) == v.t = "num"

\* bool(v)
Truthy(v) ==
  CASE v.t = "none" -> FALSE
    [] v.t = "bool" -> v.b
    [] v.t = "num" -> v.n # 0
    [] v.t = "str" -> v.s # ""
    [] v.t = "list" -> v.items # <<>>
    [] v.t = "dict" -> DOMAIN v.d # {}
    [] OTHER -> TRUE

Keys(v) == DOMAIN v.d
HasKey(v, k) == k \in DOMAIN v.d
\* v.get(k, default) of a dict v
Get(v, k, default) == IF k \in DOMAIN v.d THEN v.d[k] ELSE default
\* v[k] = x
SetKey(v, k, x) == PyDict([kk \in (DOMAIN v.d) \cup {k} |-> IF kk = k THEN x ELSE v.d[kk]])
\* v.setdefault(k, x)
SetDefault(v, k, x) == IF k \in DOMAIN v.d THEN v ELSE SetKey(v, k, x)

Min(a, b) == IF a <= b THEN a ELSE b
Max(a, b) == IF a >= b THEN a ELSE b

RECURSIVE SumRange(_, _, _)
\* s[lo] + ... + s[hi], summed by halves
SumRange(s, lo, hi) ==
  IF lo > hi THEN 0
  ELSE IF lo = hi THEN s[lo]
  ELSE LET mid == (lo + hi) \div 2
       IN SumRange(s, lo, mid) + SumRange(s, mid + 1, hi)

\* sum(s) of a sequence of integers
SumSeq(s) == SumRange(s, 1, Len(s))

\* the outcome of a call: a returned value or a raised exception
Return(v) == [kind |-> "return", value |-> v]
Raise(e) == [kind |-> "raise", exc |-> e]
Returned(o) == o.kind = "return"
Raised(o) == o.kind = "raise"

(***************************************************************************)
(* Bounds                                                                  *)
(***************************************************************************)
\* a question is 1..MaxQuestionLen fragments joined by single spaces
MaxQuestionLen == 2

(***************************************************************************)
(* Questions.  A question is a sequence of fragments joined by single      *)
(* spaces.  FragmentWords gives, for each fragment, the keywords of        *)
(* _mock_intent_classification that occur in its lower-cased form; no      *)
(* keyword straddles two fragments of this vocabulary.                     *)
(***************************************************************************)
Fragments ==
  {"How many", "Forecast", "will I need", "next month", "stock", "Customer",
   "top", "sales", "Blue T-Shirt", "last 7 days"}

FragmentWords(f) ==
  CASE f = "Forecast" -> {"forecast"}
    [] f = "will I need" -> {"need"}
    [] f = "next month" -> {"next month"}
    [] f = "stock" -> {"stock"}
    [] f = "Customer" -> {"customer"}
    [] f = "top" -> {"top"}
    [] OTHER -> {}

\* re.search(r'(blue t-shirt|red hoodie|...)', lower(f)).group(1).title()
FragmentProduct(f) == IF f = "Blue T-Shirt" THEN PyStr("Blue T-Shirt") ELSE PyNone
\* re.search(r'(last|next) (\d+) (day|week|month)', lower(f)).group(0)
FragmentTime(f) == IF f = "last 7 days" THEN PyStr("last 7 day") ELSE PyNone

Questions == UNION {[1..n -> Fragments] : n \in 1..MaxQuestionLen}

\* any(word in question_lower for word in words)
AnyWordIn(words, q) == \E i \in 1..Len(q) : FragmentWords(q[i]) \cap words # {}

\* re.search: the leftmost of the matches, else None
FirstMatch(matches) ==
  LET found == {i \in 1..Len(matches) : matches[i] # PyNone}
  IN IF found = {} THEN PyNone
     ELSE matches[CHOOSE i \in found : \A j \in found : i <= j]

ForecastWords == {"forecast", "need", "reorder", "next month", "next week"}
StockWords == {"stock", "out of stock", "inventory", "available"}
CustomerWords == {"customer", "repeat", "loyal"}
RankWords == {"top", "best", "worst", "rank"}

INTENT_DOMAINS ==
  {"inventory_forecasting", "inventory_status", "sales_analysis",
   "customer_analysis", "product_ranking"}

\* faulty variant: the ranking words are tested before the others
MockDomainRankFirst(q) ==
  IF AnyWordIn(RankWords, q) THEN "product_ranking"
  ELSE IF AnyWordIn(ForecastWords, q) THEN "inventory_forecasting"
  ELSE IF AnyWordIn(StockWords, q) THEN "inventory_status"
  ELSE IF AnyWordIn(CustomerWords, q) THEN "customer_analysis"
  ELSE "sales_analysis"

\* the if/elif chain of _mock_intent_classification
MockDomain(q) ==
  IF AnyWordIn(ForecastWords, q) THEN "inventory_forecasting"
  ELSE IF AnyWordIn(StockWords, q) THEN "inventory_status"
  ELSE IF AnyWordIn(CustomerWords, q) THEN "customer_analysis"
  ELSE IF AnyWordIn(RankWords, q) THEN "product_ranking"
  ELSE "sales_analysis"

\* AgentOrchestrator._mock_intent_classification
MockIntentClassification(q) ==
  LET domain == MockDomain(q)
      requires_forecast == (domain = "inventory_forecasting")
      product_name == FirstMatch([i \in 1..Len(q) |-> FragmentProduct(q[i])])
      time_match == FirstMatch([i \in 1..Len(q) |-> FragmentTime(q[i])])
      time_period == IF time_match # PyNone THEN time_match ELSE PyStr("last 30 days")
  IN PyDict([domain |-> PyStr(domain),
             confidence |-> PyNum(92),
             entities |-> IF Truthy(product_name) \/ Truthy(time_period)
                          THEN PyDict([product_name |-> product_name,
                                       time_period |-> time_period])
                          ELSE EmptyDict,
             time_range |-> PyStr(IF requires_forecast THEN "next_30_days"
                                  ELSE "last_30_days"),
             requires_forecast |-> PyBool(requires_forecast)])

DefaultForecastConfig ==
  PyDict([method |-> PyStr("linear_regression"),
          historical_days |-> PyNum(90),
          forecast_days |-> PyNum(30)])

MockPlans ==
  [inventory_forecasting |->
     PyDict([data_sources |-> PyList(<<PyStr("orders"), PyStr("products")>>),
             primary_metric |-> PyStr("quantity_sold"),
             aggregations |-> PyList(<<PyStr("sum"), PyStr("average")>>),
             requires_forecast |-> PyBool(TRUE),
             forecast_config |-> DefaultForecastConfig]),
   sales_analysis |->
     PyDict([data_sources |-> PyList(<<PyStr("orders")>>),
             primary_metric |-> PyStr("quantity_sold"),
             aggregations |-> PyList(<<PyStr("sum"), PyStr("count")>>),
             requires_forecast |-> PyBool(FALSE)]),
   customer_analysis |->
     PyDict([data_sources |-> PyList(<<PyStr("customers"), PyStr("orders")>>),
             primary_metric |-> PyStr("order_count"),
             aggregations |-> PyList(<<PyStr("count")>>),
             requires_forecast |-> PyBool(FALSE)])]

\* AgentOrchestrator._mock_query_planning
MockQueryPlanning(i) ==
  LET domain == Get(i, "domain", PyStr("sales_analysis"))
  IN IF domain.t = "str" /\ domain.s \in DOMAIN MockPlans
     THEN MockPlans[domain.s]
     ELSE MockPlans["sales_analysis"]

(***************************************************************************)
(* Text.  A string that the code searches or cuts is a sequence of chunks; *)
(* a chunk is a fixed piece of text.  The keyword FROM only ever occurs as *)
(* a chunk of its own ("FROM", "from"), so that startswith, index and      *)
(* slicing at an occurrence of FROM fall on chunk boundaries.              *)
(***************************************************************************)
PyText(chunks) == [t |-> "text", chunks |-> chunks]

SP == " "
\* a newline character, and the three backquotes of a markdown fence
NL == "<newline>"
FENCE == "<fence>"

\* the character sharp s, whose str.upper() is the two characters SS
ESZETT == "<sharp s>"

\* str.upper() of a chunk, for the chunks whose case matters
UpperChunk(c) ==
  CASE c = "from" -> "FROM"
    [] c = "sql" -> "SQL"
    [] c = ESZETT -> "SS"
    [] OTHER -> c

\* len(c.upper()) - len(c)
UpperGrowth(c) == IF c = ESZETT THEN 1 ELSE 0

IsFromChunk(c) == UpperChunk(c) = "FROM"
IsSpaceChunk(c) == c \in {SP, NL}

\* AgentOrchestrator._mock_shopifyql_generation
MockShopifyqlGeneration(i, p) ==
  LET domain == Get(i, "domain", PyNone)
      head == <<"FROM", SP, "orders SHOW product_name, SUM(quantity) AS total_quantity",
                SP, "GROUP BY product_name">>
  IN IF domain = PyStr("inventory_forecasting")
     THEN PyText(head \o <<SP, "WHERE created_at >= '2024-10-01'">>)
     ELSE IF domain = PyStr("product_ranking")
     THEN PyText(head \o <<SP, "ORDER BY total_quantity DESC", SP, "LIMIT 5">>)
     ELSE IF domain = PyStr("customer_analysis")
     THEN PyText(<<"FROM", SP,
                   "customers SHOW email, COUNT(order_id) AS order_count GROUP BY email HAVING order_count > 1">>)
     ELSE PyText(head)

(***************************************************************************)
(* Synthetic data of the orchestrator.  random.randint(-50, 50) and        *)
(* random.uniform(20, 80) are choices; RandomDraws is the bounded set a    *)
(* product's three draws are taken from (dq, dr: the two randint values,   *)
(* price: the uniform value, taken integral).                              *)
(***************************************************************************)
RandomDraws ==
  {[dq |-> -50, dr |-> 50, price |-> 20], [dq |-> 50, dr |-> 0, price |-> 80]}

MockProducts ==
  <<[name |-> "Blue T-Shirt", base_quantity |-> 680, velocity |-> 83],
    [name |-> "Red Hoodie", base_quantity |-> 420, velocity |-> 52],
    [name |-> "Black Jeans", base_quantity |-> 350, velocity |-> 121],
    [name |-> "White Sneakers", base_quantity |-> 290, velocity |-> 98],
    [name |-> "Green Cap", base_quantity |-> 180, velocity |-> 35]>>

\* the forecast object of one row of _generate_synthetic_data
MockForecast(product, p) ==
  LET forecast_days == Get(Get(p, "forecast_config", EmptyDict), "forecast_days", PyNum(30))
      daily_velocity == product.velocity
      \* int(daily_velocity * forecast_days), velocity in tenths
      forecast_quantity == (daily_velocity * forecast_days.n) \div 10
      \* int(forecast_quantity * 0.2)
      safety_stock == forecast_quantity \div 5
  IN PyDict([daily_velocity |-> PyNum(daily_velocity),
             forecast_quantity |-> PyNum(forecast_quantity),
             safety_stock |-> PyNum(safety_stock),
             total_needed |-> PyNum(forecast_quantity + safety_stock),
             forecast_days |-> forecast_days,
             confidence |-> PyNum(88)])

\* faulty variant: a row without its forecast
MockRowPlain(product, draw, p) ==
  PyDict([product_name |-> PyStr(product.name),
          quantity |-> PyNum(product.base_quantity + draw.dq),
          revenue |-> PyNum((product.base_quantity + draw.dr) * draw.price)])

\* one row of _generate_synthetic_data
MockRow(product, draw, p) ==
  LET row == PyDict([product_name |-> PyStr(product.name),
                     quantity |-> PyNum(product.base_quantity + draw.dq),
                     revenue |-> PyNum((product.base_quantity + draw.dr) * draw.price)])
  IN IF Truthy(Get(p, "requires_forecast", PyNone))
     THEN SetKey(row, "forecast", MockForecast(product, p))
     ELSE row

\* faulty variant: row_count is taken before the last row is appended
GenerateSyntheticDataShortCount(p, draws) ==
  LET data == [k \in 1..Len(MockProducts) |-> MockRow(MockProducts[k], draws[k], p)]
  IN PyDict([data |-> PyList(data),
             forecast_applied |-> Get(p, "requires_forecast", PyBool(FALSE)),
             row_count |-> PyNum(Len(data) - 1)])

\* AgentOrchestrator._generate_synthetic_data, draws[k] the draws of product k
GenerateSyntheticData(p, draws) ==
  LET data == [k \in 1..Len(MockProducts) |-> MockRow(MockProducts[k], draws[k], p)]
  IN PyDict([data |-> PyList(data),
             forecast_applied |-> Get(p, "requires_forecast", PyBool(FALSE)),
             row_count |-> PyNum(Len(data))])

\* sum(row.get(key, 0) for row in rows)
RECURSIVE SumField(_, _)
SumField(rows, key) ==
  IF rows = <<>> THEN 0
  ELSE Get(Head(rows), key, PyNum(0)).n + SumField(Tail(rows), key)

\* rows[:n]
Take(rows, n) == SubSeq(rows, 1, Min(n, Len(rows)))

\* AgentOrchestrator._mock_insight_synthesis
MockInsightSynthesis(q, i, result) ==
  LET data == Get(result, "data", PyList(<<>>)).items
      domain == Get(i, "domain", PyNone)
  IN IF data = <<>>
     THEN PyDict([summary |-> PyStr("No data found for this query"),
                  key_findings |-> PyList(<<PyStr("No matching data in your store")>>),
                  recommendations |-> PyList(<<PyStr("Try adjusting your search criteria")>>),
                  data_summary |-> PyDict([total_rows |-> PyNum(0)])])
     ELSE IF domain = PyStr("inventory_forecasting")
     THEN LET product == data[1]
              forecast == Get(product, "forecast", EmptyDict)
              name == product.d["product_name"]
              total_needed == Get(forecast, "total_needed", PyNum(0))
          IN PyDict([summary |->
                       PyFmt("You'll need approximately {} units of {} next month",
                             <<total_needed, name>>),
                     key_findings |-> PyList(<<
                       PyFmt("You sell about {} {}s per day",
                             <<PyNum(Get(forecast, "daily_velocity", PyNum(0)).n \div 10), name>>),
                       PyStr("Based on 90 days of sales history"),
                       PyFmt("Projected sales: {} units",
                             <<Get(forecast, "forecast_quantity", PyNum(0))>>),
                       PyFmt("Safety stock added: {} units",
                             <<Get(forecast, "safety_stock", PyNum(0))>>)>>),
                     recommendations |-> PyList(<<
                       PyFmt("Order {} units to cover next month", <<total_needed>>),
                       PyStr("Monitor sales velocity weekly to adjust forecasts")>>),
                     data_summary |-> PyDict([total_rows |-> PyNum(Len(data)),
                                              forecast_applied |-> PyBool(TRUE)])])
     ELSE IF domain = PyStr("product_ranking")
     THEN LET total_quantity == SumField(data, "quantity")
              top == Take(data, 5)
          IN PyDict([summary |->
                       PyFmt("Your top 5 products sold {} units last week",
                             <<PyNum(total_quantity)>>),
                     key_findings |-> PyList(
                       [k \in 1..Len(top) |->
                          PyFmt("{}. {} - {} units (${} revenue)",
                                <<PyNum(k), top[k].d["product_name"],
                                  top[k].d["quantity"], top[k].d["revenue"]>>)]),
                     recommendations |-> PyList(<<
                       PyFmt("{} is your best seller - ensure adequate stock",
                             <<data[1].d["product_name"]>>),
                       PyStr("Focus marketing efforts on top 3 products"),
                       PyFmt("Consider promotions for {} to boost sales",
                             <<data[Len(data)].d["product_name"]>>)>>),
                     data_summary |-> PyDict([total_rows |-> PyNum(Len(data)),
                                              total_units |-> PyNum(total_quantity),
                                              total_revenue |-> PyNum(SumField(data, "revenue"))])])
     ELSE LET total_quantity == SumField(data, "quantity")
              top == Take(data, 3)
          IN PyDict([summary |->
                       PyFmt("Found {} products with {} total units sold",
                             <<PyNum(Len(data)), PyNum(total_quantity)>>),
                     key_findings |-> PyList(
                       [k \in 1..Len(top) |->
                          PyFmt("{}: {} units sold",
                                <<top[k].d["product_name"], top[k].d["quantity"]>>)]),
                     recommendations |-> PyList(<<
                       PyStr("Review top performers for restocking priorities"),
                       PyStr("Consider bundling popular items")>>),
                     data_summary |-> PyDict([total_rows |-> PyNum(Len(data)),
                                              total_units |-> PyNum(total_quantity)])])

(***************************************************************************)
(* AgentOrchestrator.process_query, one action per stage.  A stage either  *)
(* returns its value or raises: the deterministic stages have no raising   *)
(* path of their own, so the exception a stage may raise is an injected    *)
(* fault (StageFaults: the text of the exception), which the except clause *)
(* of process_query has to tolerate.                                       *)
(***************************************************************************)
StageFaults == {"stage unavailable", "out of memory"}
ShopDomains == {"demo-store.myshopify.com", "other-store.myshopify.com"}

NoCall == [op |-> "none"]
\* the service process before it has started
ServerDown == [started |-> FALSE]

Init ==
  /\ pc = "idle"
  /\ question = <<>>
  /\ shop_domain = ""
  /\ intent = Unset
  /\ plan = Unset
  /\ query = Unset
  /\ execution_result = Unset
  /\ insights = Unset
  /\ exc = PyNone
  /\ response = Unset
  /\ calls = <<>>
  /\ call = NoCall
  /\ server = ServerDown

StageCall(stage, args, outcome) == [stage |-> stage, args |-> args, outcome |-> outcome]

\* the response of the normal path (orchestrator.py lines 58-76)
CompletedResponse(sd, i, q, ins, result) ==
  PyDict([status |-> PyStr("completed"),
          intent |-> i,
          query |-> q,
          insights |-> ins,
          confidence |-> PyNum(85),
          metadata |-> PyDict([shop_domain |-> PyStr(sd),
                               data_points |-> PyNum(Len(Get(result, "data", PyList(<<>>)).items)),
                               forecast_applied |-> Get(result, "forecast_applied", PyBool(FALSE)),
                               mock_mode |-> PyBool(TRUE)])])

\* faulty variant: a failure response that keeps a partial-success status
FailedResponsePartial(e) ==
  PyDict([status |-> PyStr("partial"),
          intent |-> EmptyDict,
          query |-> PyText(<<>>),
          insights |-> PyDict([summary |-> PyStr("Failed to process query"),
                               key_findings |-> PyList(<<>>),
                               recommendations |-> PyList(<<>>)]),
          confidence |-> PyNum(0),
          error |-> e])

\* the response of the except clause (orchestrator.py lines 78-91)
FailedResponse(e) ==
  PyDict([status |-> PyStr("failed"),
          intent |-> EmptyDict,
          query |-> PyText(<<>>),
          insights |-> PyDict([summary |-> PyStr("Failed to process query"),
                               key_findings |-> PyList(<<>>),
                               recommendations |-> PyList(<<>>)]),
          confidence |-> PyNum(0),
          error |-> e])

\* main.py process_query: a request arrives and orchestrator.process_query
\* is entered with its question and shop domain
StartRequest ==
  /\ pc = "idle"
  /\ \E q \in Questions, sd \in ShopDomains :
       /\ question' = q
       /\ shop_domain' = sd
  /\ pc' = "classify"
  /\ UNCHANGED <<intent, plan, query, execution_result, insights, exc, response,
                 calls, call, server>>

\* main.py process_query: return result; the call's frame is gone
FinishRequest ==
  /\ pc = "returned"
  /\ pc' = "idle"
  /\ question' = <<>>
  /\ shop_domain' = ""
  /\ intent' = Unset
  /\ plan' = Unset
  /\ query' = Unset
  /\ execution_result' = Unset
  /\ insights' = Unset
  /\ exc' = PyNone
  /\ response' = Unset
  /\ calls' = <<>>
  /\ UNCHANGED <<call, server>>

\* faulty variant: a stage that raised is tried again instead of ending the request
StageRaisesAndRetries(stage, args, fault) ==
  /\ exc' = PyStr(fault)
  /\ calls' = Append(calls, StageCall(stage, args, Raise(fault)))
  /\ pc' = pc

\* a stage raised: control goes to the except clause
StageRaises(stage, args, fault) ==
  /\ exc' = PyStr(fault)
  /\ calls' = Append(calls, StageCall(stage, args, Raise(fault)))
  /\ pc' = "except"

ClassifyArgs == [question |-> question]
PlanArgs == [intent |-> intent]
GenerateArgs == [intent |-> intent, plan |-> plan]
ExecuteArgs == [plan |-> plan]
SynthesizeArgs == [question |-> question, intent |-> intent,
                   execution_result |-> execution_result]

\* Stage 1: intent = self._mock_intent_classification(question)
Stage1Classify ==
  /\ pc = "classify"
  /\ \/ /\ intent' = MockIntentClassification(ClassifyArgs.question)
        /\ calls' = Append(calls, StageCall("classify", ClassifyArgs, Return(intent')))
        /\ pc' = "plan"
        /\ UNCHANGED exc
     \/ /\ \E f \in StageFaults : StageRaises("classify", ClassifyArgs, f)
        /\ UNCHANGED intent
  /\ UNCHANGED <<question, shop_domain, plan, query, execution_result, insights,
                 response, call, server>>

\* Stage 2: plan = self._mock_query_planning(intent)
Stage2Plan ==
  /\ pc = "plan"
  /\ \/ /\ plan' = MockQueryPlanning(PlanArgs.intent)
        /\ calls' = Append(calls, StageCall("plan", PlanArgs, Return(plan')))
        /\ pc' = "generate"
        /\ UNCHANGED exc
     \/ /\ \E f \in StageFaults : StageRaises("plan", PlanArgs, f)
        /\ UNCHANGED plan
  /\ UNCHANGED <<question, shop_domain, intent, query, execution_result, insights,
                 response, call, server>>

\* Stage 3: query = self._mock_shopifyql_generation(intent, plan)
Stage3Generate ==
  /\ pc = "generate"
  /\ \/ /\ query' = MockShopifyqlGeneration(GenerateArgs.intent, GenerateArgs.plan)
        /\ calls' = Append(calls, StageCall("generate", GenerateArgs, Return(query')))
        /\ pc' = "execute"
        /\ UNCHANGED exc
     \/ /\ \E f \in StageFaults : StageRaises("generate", GenerateArgs, f)
        /\ UNCHANGED query
  /\ UNCHANGED <<question, shop_domain, intent, plan, execution_result, insights,
                 response, call, server>>

\* Stage 4: execution_result = self._generate_synthetic_data(plan)
Stage4Execute ==
  /\ pc = "execute"
  /\ \/ /\ \E draws \in [1..Len(MockProducts) -> RandomDraws] :
             execution_result' = GenerateSyntheticData(ExecuteArgs.plan, draws)
        /\ calls' = Append(calls, StageCall("execute", ExecuteArgs, Return(execution_result')))
        /\ pc' = "synthesize"
        /\ UNCHANGED exc
     \/ /\ \E f \in StageFaults : StageRaises("execute", ExecuteArgs, f)
        /\ UNCHANGED execution_result
  /\ UNCHANGED <<question, shop_domain, intent, plan, query, insights, response, call, server>>

\* Stage 5: insights = self._mock_insight_synthesis(question, intent, execution_result)
Stage5Synthesize ==
  /\ pc = "synthesize"
  /\ \/ /\ insights' = MockInsightSynthesis(SynthesizeArgs.question, SynthesizeArgs.intent,
                                          SynthesizeArgs.execution_result)
        /\ calls' = Append(calls, StageCall("synthesize", SynthesizeArgs, Return(insights')))
        /\ pc' = "respond"
        /\ UNCHANGED exc
     \/ /\ \E f \in StageFaults : StageRaises("synthesize", SynthesizeArgs, f)
        /\ UNCHANGED insights
  /\ UNCHANGED <<question, shop_domain, intent, plan, query, execution_result,
                 response, call, server>>

\* confidence = 0.85; response = {...}; return response
ReturnCompleted ==
  /\ pc = "respond"
  /\ response' = CompletedResponse(shop_domain, intent, query, insights, execution_result)
  /\ pc' = "returned"
  /\ UNCHANGED <<question, shop_domain, intent, plan, query, execution_result,
                 insights, exc, calls, call, server>>

\* except Exception as e: return {"status": "failed", ...}
ReturnFailed ==
  /\ pc = "except"
  /\ response' = FailedResponse(exc)
  /\ pc' = "returned"
  /\ UNCHANGED <<question, shop_domain, intent, plan, query, execution_result,
                 insights, exc, calls, call, server>>

Next ==
  \/ StartRequest
  \/ Stage1Classify
  \/ Stage2Plan
  \/ Stage3Generate
  \/ Stage4Execute
  \/ Stage5Synthesize
  \/ ReturnCompleted
  \/ ReturnFailed
  \/ FinishRequest

Spec == Init /\ [][Next]_vars

(***************************************************************************)
(* Claims on process_query (specification Spec)                            *)
(***************************************************************************)
Status(r) == Get(r, "status", PyNone)
LastCall == calls[Len(calls)]
StageNames == [k \in 1..Len(calls) |-> calls[k].stage]

\* C1: process_query never raises to its caller: every call ends by returning
\* a response whose status is completed or failed; when a stage raised, the
\* response is exactly {status: failed, intent: {}, query: "", insights: the
\* "Failed to process query" stub, confidence: 0.0, error: the exception text},
\* and a failed response arises in no other way.
C1_FailureResponse ==
  pc = "returned" =>
    /\ IsDict(response)
    /\ Status(response) \in {PyStr("completed"), PyStr("failed")}
    /\ (Status(response) = PyStr("failed")) <=> (calls # <<>> /\ Raised(LastCall.outcome))
    /\ (calls # <<>> /\ Raised(LastCall.outcome)) =>
         response =
           PyDict([status |-> PyStr("failed"),
                   intent |-> EmptyDict,
                   query |-> PyText(<<>>),
                   insights |-> PyDict([summary |-> PyStr("Failed to process query"),
                                        key_findings |-> PyList(<<>>),
                                        recommendations |-> PyList(<<>>)]),
                   confidence |-> PyNum(0),
                   error |-> PyStr(LastCall.outcome.exc)])

\* witness of C1: the third stage raised and the call has returned
C1_Witness ==
  /\ pc = "returned"
  /\ Len(calls) = 3
  /\ Raised(calls[3].outcome)
  /\ Status(response) = PyStr("failed")

\* C2: a run that returns status completed ran Classify, Plan, Generate,
\* Execute, Synthesize once each in that order, each stage reading only the
\* outputs of earlier stages (Plan: the Intent; Generate: Intent and Plan;
\* Execute: the Plan; Synthesize: question, Intent and ExecutionResult); and
\* in every run no stage call follows a stage call that raised.
C2_StageOrder ==
  /\ \A k \in 1..Len(calls) : Raised(calls[k].outcome) => k = Len(calls)
  /\ (pc = "returned" /\ Status(response) = PyStr("completed")) =>
       /\ StageNames = <<"classify", "plan", "generate", "execute", "synthesize">>
       /\ \A k \in 1..5 : Returned(calls[k].outcome)
       /\ calls[1].args = [question |-> question]
       /\ calls[2].args = [intent |-> calls[1].outcome.value]
       /\ calls[3].args = [intent |-> calls[1].outcome.value,
                           plan |-> calls[2].outcome.value]
       /\ calls[4].args = [plan |-> calls[2].outcome.value]
       /\ calls[5].args = [question |-> question,
                           intent |-> calls[1].outcome.value,
                           execution_result |-> calls[4].outcome.value]
       /\ Get(response, "intent", PyNone) = calls[1].outcome.value
       /\ Get(response, "query", PyNone) = calls[3].outcome.value
       /\ Get(response, "insights", PyNone) = calls[5].outcome.value

\* witness of C2: a completed run of a forecasting question
C2_Witness ==
  /\ pc = "returned"
  /\ Status(response) = PyStr("completed")
  /\ Len(calls) = 5
  /\ Get(plan, "requires_forecast", PyNone) = PyBool(TRUE)

(***************************************************************************)
(* Completion-service texts.  A completion text is a sequence of chunks    *)
(* that may hold a JSON document: the chunk JSONDOC stands for the text of *)
(* the document `json` of the same record (on one line).  PROSE is a piece *)
(* of text that is not JSON and holds no fence and no newline.             *)
(***************************************************************************)
JSONDOC == "<json document>"
PROSE == "Here is the result:"

JsonText(chunks, json) == [t |-> "text", chunks |-> chunks, json |-> json]

\* all sequences over S of length 0..n
SeqsUpTo(S, n) == UNION {[1..k -> S] : k \in 0..n}

\* str.strip(): leading and trailing whitespace goes
RECURSIVE LStrip(_)
LStrip(cs) == IF cs # <<>> /\ IsSpaceChunk(Head(cs)) THEN LStrip(Tail(cs)) ELSE cs
RECURSIVE RStrip(_)
RStrip(cs) ==
  IF cs # <<>> /\ IsSpaceChunk(cs[Len(cs)]) THEN RStrip(SubSeq(cs, 1, Len(cs) - 1)) ELSE cs
Strip(cs) == RStrip(LStrip(cs))

\* str.replace(a + b, ""): left to right, occurrences do not overlap
RECURSIVE RemovePair(_, _, _)
RemovePair(cs, a, b) ==
  IF Len(cs) < 2 THEN cs
  ELSE IF cs[1] = a /\ cs[2] = b THEN RemovePair(SubSeq(cs, 3, Len(cs)), a, b)
  ELSE <<cs[1]>> \o RemovePair(Tail(cs), a, b)

\* str.replace(a, "")
RemoveAll(cs, a) == SelectSeq(cs, LAMBDA c : c # a)

\* "\n".join(text.split("\n")[1:-1]): what lies between the first and the
\* last newline; nothing when there are fewer than two newlines
NewlineAt(cs) == {k \in 1..Len(cs) : cs[k] = NL}
FirstIn(S) == CHOOSE k \in S : \A j \in S : k <= j
LastIn(S) == CHOOSE k \in S : \A j \in S : k >= j
InnerLines(cs) ==
  IF NewlineAt(cs) = {} THEN <<>>
  ELSE SubSeq(cs, FirstIn(NewlineAt(cs)) + 1, LastIn(NewlineAt(cs)) - 1)
\* len(text.split("\n"))
LineCount(cs) == Cardinality(NewlineAt(cs)) + 1

\* json.loads(text): the document when the text is exactly one document
\* (callers strip the text first), else json.JSONDecodeError
JsonLoads(chunks, json) ==
  IF chunks = <<JSONDOC>> THEN Return(json) ELSE Raise("JSONDecodeError")

(***************************************************************************)
(* The completion service: client.messages.create(...) raises, or returns  *)
(* a response whose content is empty, or whose content[0].text is a text.  *)
(***************************************************************************)
ServiceRaises == [kind |-> "raise", exc |-> "APIError"]
ServiceEmpty == [kind |-> "empty"]
ServiceText(text) == [kind |-> "text", text |-> text]

(***************************************************************************)
(* IntentClassifier                                                        *)
(***************************************************************************)
\* the safe default intent (intent_classifier.py lines 78-84 and 161-167)
DefaultIntent ==
  PyDict([domain |-> PyStr("sales_analysis"),
          confidence |-> PyNum(30),
          entities |-> EmptyDict,
          time_range |-> PyStr("last_30_days"),
          requires_forecast |-> PyBool(FALSE)])

\* the number a bool or a number compares as
AsNumber(v) == IF v.t = "bool" THEN (IF v.b THEN 100 ELSE 0) ELSE v.n

\* faulty variant: the confidence is stored as parsed, unclamped
UnclampedConfidence(c) == c

\* max(0.0, min(1.0, confidence)), in hundredths
ClampConfidence(c) == Max(0, Min(100, c))

\* faulty variant: the parsed domain is kept whatever it is
KeepDomain(i) == i

\* if intent.get("domain") not in self.INTENT_DOMAINS: intent["domain"] = "sales_analysis"
ValidateDomain(i) ==
  LET domain == Get(i, "domain", PyNone)
  IN IF domain.t = "str" /\ domain.s \in INTENT_DOMAINS
     THEN i
     ELSE SetKey(i, "domain", PyStr("sales_analysis"))

\* the try block of IntentClassifier._parse_response on the loaded value
ValidateIntent(loaded) ==
  IF ~IsDict(loaded) THEN Raise("AttributeError")
  ELSE LET i1 == ValidateDomain(loaded)
           confidence == Get(i1, "confidence", PyNum(50))
       IN IF confidence.t \notin {"num", "bool"} THEN Raise("TypeError")
          ELSE LET i2 == SetKey(i1, "confidence", PyNum(ClampConfidence(AsNumber(confidence))))
                   i3 == SetDefault(i2, "entities", EmptyDict)
                   i4 == SetDefault(i3, "time_range", PyStr("last_30_days"))
               IN Return(SetDefault(i4, "requires_forecast", PyBool(FALSE)))

\* the cleaning of IntentClassifier._parse_response (lines 125-132)
CleanIntentText(chunks) ==
  LET stripped == Strip(chunks)
      unfenced == IF stripped # <<>> /\ Head(stripped) = FENCE
                  THEN InnerLines(stripped) ELSE stripped
  IN Strip(RemoveAll(RemovePair(unfenced, FENCE, "json"), FENCE))

\* IntentClassifier._parse_response
ParseIntentResponse(text) ==
  LET loaded == JsonLoads(CleanIntentText(text.chunks), text.json)
  IN IF Raised(loaded) THEN Return(DefaultIntent) ELSE ValidateIntent(loaded.value)

\* the try block of IntentClassifier.classify
ClassifyTry(q, service) ==
  IF service.kind = "raise" THEN Raise(service.exc)
  ELSE IF service.kind = "empty" THEN Raise("IndexError")
  ELSE ParseIntentResponse(service.text)

\* faulty variant: classify without its except clause
ClassifyUncaught(q, service) == ClassifyTry(q, service)

\* IntentClassifier.classify
Classify(q, service) ==
  LET parsed == ClassifyTry(q, service)
  IN IF Raised(parsed) THEN Return(DefaultIntent) ELSE parsed

(***************************************************************************)
(* QueryPlanner                                                            *)
(***************************************************************************)
\* the plan returned after a JSONDecodeError (query_planner.py lines 146-153)
ParseErrorPlan ==
  PyDict([data_sources |-> PyList(<<PyStr("orders")>>),
          primary_metric |-> PyStr("quantity_sold"),
          aggregations |-> PyList(<<PyStr("sum")>>),
          filters |-> PyDict([date_range |-> PyStr("last_30_days")]),
          requires_forecast |-> PyBool(FALSE),
          group_by |-> PyList(<<>>)])

\* the table of the module-level function _get_default_plan (lines 159-189)
DefaultPlans ==
  [inventory_forecasting |->
     PyDict([data_sources |-> PyList(<<PyStr("orders"), PyStr("products")>>),
             primary_metric |-> PyStr("quantity_sold"),
             aggregations |-> PyList(<<PyStr("sum"), PyStr("daily_average")>>),
             filters |-> PyDict([date_range |-> PyStr("last_90_days")]),
             requires_forecast |-> PyBool(TRUE),
             forecast_config |-> DefaultForecastConfig,
             group_by |-> PyList(<<PyStr("product_name")>>)]),
   sales_analysis |->
     PyDict([data_sources |-> PyList(<<PyStr("orders")>>),
             primary_metric |-> PyStr("quantity_sold"),
             aggregations |-> PyList(<<PyStr("sum"), PyStr("count")>>),
             filters |-> PyDict([date_range |-> PyStr("last_30_days")]),
             requires_forecast |-> PyBool(FALSE),
             group_by |-> PyList(<<PyStr("product_name")>>)]),
   customer_analysis |->
     PyDict([data_sources |-> PyList(<<PyStr("customers"), PyStr("orders")>>),
             primary_metric |-> PyStr("order_count"),
             aggregations |-> PyList(<<PyStr("count"), PyStr("sum")>>),
             filters |-> PyDict([date_range |-> PyStr("last_90_days")]),
             requires_forecast |-> PyBool(FALSE),
             group_by |-> PyList(<<PyStr("customer_email")>>)])]

\* the module-level function _get_default_plan(self, intent)
GetDefaultPlan(i) ==
  LET domain == Get(i, "domain", PyStr("sales_analysis"))
  IN IF domain.t = "str" /\ domain.s \in DOMAIN DefaultPlans
     THEN DefaultPlans[domain.s]
     ELSE DefaultPlans["sales_analysis"]

\* self._get_default_plan(intent) in QueryPlanner.plan: _get_default_plan is
\* defined at module level (line 155, column 0), after the class body, so a
\* QueryPlanner has no such attribute and the lookup raises AttributeError
SelfGetDefaultPlan(i) == Raise("AttributeError")

\* the try block of QueryPlanner._parse_response on the loaded value
CompletePlan(loaded) ==
  IF ~IsDict(loaded) THEN Raise("AttributeError")
  ELSE LET p1 == SetDefault(loaded, "data_sources", PyList(<<PyStr("orders")>>))
           p2 == SetDefault(p1, "primary_metric", PyStr("quantity_sold"))
           p3 == SetDefault(p2, "aggregations", PyList(<<PyStr("sum")>>))
           p4 == SetDefault(p3, "filters", EmptyDict)
           p5 == SetDefault(p4, "requires_forecast", PyBool(FALSE))
           p6 == SetDefault(p5, "group_by", PyList(<<>>))
       IN IF Truthy(Get(p6, "requires_forecast", PyNone)) /\ ~HasKey(p6, "forecast_config")
          THEN Return(SetKey(p6, "forecast_config", DefaultForecastConfig))
          ELSE Return(p6)

\* the cleaning of QueryPlanner._parse_response (lines 116-117)
CleanPlanText(chunks) ==
  Strip(RemoveAll(RemovePair(Strip(chunks), FENCE, "json"), FENCE))

\* QueryPlanner._parse_response
ParsePlanResponse(text) ==
  LET loaded == JsonLoads(CleanPlanText(text.chunks), text.json)
  IN IF Raised(loaded) THEN Return(ParseErrorPlan) ELSE CompletePlan(loaded.value)

\* QueryPlanner.plan
PlanQuery(q, i, service) ==
  LET parsed == IF service.kind = "raise" THEN Raise(service.exc)
                ELSE IF service.kind = "empty" THEN Raise("IndexError")
                ELSE ParsePlanResponse(service.text)
  IN IF Raised(parsed) THEN SelfGetDefaultPlan(i) ELSE parsed

(***************************************************************************)
(* ShopifyQLGenerator                                                      *)
(***************************************************************************)
\* lines 132-139 of _parse_response: strip, drop the fence lines, drop fences
UnfenceQuery(chunks) ==
  LET stripped == Strip(chunks)
      inner == IF stripped # <<>> /\ Head(stripped) = FENCE /\ LineCount(stripped) > 2
               THEN InnerLines(stripped) ELSE stripped
  IN Strip(RemoveAll(RemovePair(inner, FENCE, "sql"), FENCE))

\* query.split("\n\n"): left to right, occurrences do not overlap
RECURSIVE SplitBlankLines(_, _)
SplitBlankLines(cs, acc) ==
  IF cs = <<>> THEN <<acc>>
  ELSE IF Len(cs) >= 2 /\ cs[1] = NL /\ cs[2] = NL
  THEN <<acc>> \o SplitBlankLines(SubSeq(cs, 3, Len(cs)), <<>>)
  ELSE SplitBlankLines(Tail(cs), Append(acc, Head(cs)))

\* text.upper().startswith("FROM")
StartsWithFrom(cs) == cs # <<>> /\ IsFromChunk(Head(cs))
\* "FROM" in text.upper()
ContainsFrom(cs) == \E k \in 1..Len(cs) : IsFromChunk(cs[k])

\* for part in parts: if part.strip().upper().startswith("FROM"): query = part.strip(); break
RECURSIVE FirstFromPart(_, _)
FirstFromPart(parts, q) ==
  IF parts = <<>> THEN q
  ELSE IF StartsWithFrom(Strip(Head(parts))) THEN Strip(Head(parts))
  ELSE FirstFromPart(Tail(parts), q)

\* lines 142-148 of _parse_response
SelectParagraph(q) ==
  IF Len(SplitBlankLines(q, <<>>)) > 1 THEN FirstFromPart(SplitBlankLines(q, <<>>), q) ELSE q

\* c[n:] of the chunk of a FROM keyword, 0 < n < 4
RestOfFrom(c, n) ==
  CASE c = "FROM" -> <<"ROM", "OM", "M">>[n]
    [] c = "from" -> <<"rom", "om", "m">>[n]

\* cs[n:], n counted in characters, of a text that starts with a FROM
\* keyword, 0 <= n < 4
DropChars(cs, n) ==
  IF n = 0 THEN cs ELSE <<RestOfFrom(Head(cs), n)>> \o Tail(cs)

\* lines 151-156 of _parse_response: idx is the index of FROM in
\* query.upper(), and query[idx:] is taken of the text as it is; every
\* character before it whose upper case is longer moves idx to the right
CutToFrom(q) ==
  IF ~StartsWithFrom(q) /\ ContainsFrom(q)
  THEN LET k == FirstIn({j \in 1..Len(q) : IsFromChunk(q[j])})
           growth == SumSeq([j \in 1..(k - 1) |-> UpperGrowth(q[j])])
       IN DropChars(SubSeq(q, k, Len(q)), growth)
  ELSE q

\* ShopifyQLGenerator._parse_response
ParseQueryResponse(text) == PyText(CutToFrom(SelectParagraph(UnfenceQuery(text.chunks))))

\* ShopifyQLGenerator._get_default_query
GetDefaultQuery(p) ==
  LET sources == Get(p, "data_sources", PyList(<<PyStr("orders")>>))
      filters == Get(p, "filters", EmptyDict)
      group_by == Get(p, "group_by", PyList(<<>>))
  IN IF ~IsList(sources) THEN Raise("TypeError")
     ELSE IF sources.items = <<>> THEN Raise("IndexError")
     ELSE IF sources.items[1] = PyStr("orders")
     THEN IF ~IsDict(filters) THEN Raise("AttributeError")
          ELSE IF ~IsList(group_by) THEN Raise("TypeError")
          ELSE Return(PyText(
                 <<"FROM", SP, "orders SHOW product_name, SUM(quantity) AS total_quantity">>
                 \o (IF Truthy(Get(filters, "date_range", PyNone))
                     THEN <<SP, "WHERE created_at >= DATE_SUB(NOW(), INTERVAL 30 DAY)">>
                     ELSE <<>>)
                 \o (IF \E k \in 1..Len(group_by.items) : group_by.items[k] = PyStr("product_name")
                     THEN <<SP, "GROUP BY product_name ORDER BY total_quantity DESC">>
                     ELSE <<>>)
                 \o <<SP, "LIMIT 10">>))
     ELSE IF sources.items[1] = PyStr("products")
     THEN Return(PyText(<<"FROM", SP,
            "products SHOW product_name, inventory_quantity WHERE inventory_quantity < 50">>))
     ELSE Return(PyText(<<"FROM", SP,
            "customers SHOW customer_email, COUNT(order_id) AS order_count GROUP BY customer_email HAVING order_count > 1">>))

\* ShopifyQLGenerator.generate
Generate(q, i, p, service) ==
  IF service.kind = "raise" \/ service.kind = "empty"
  THEN GetDefaultQuery(p)
  ELSE Return(ParseQueryResponse(service.text))

(***************************************************************************)
(* QueryExecutor: synthetic data                                           *)
(***************************************************************************)
\* Settings.SAFETY_STOCK_MULTIPLIER, in hundredths
SAFETY_STOCK_MULTIPLIER == 120
\* timedelta(days=90) of _generate_sales_data
HISTORY_DAYS == 90
\* if len(quantities) < 7: continue
MIN_OBSERVATIONS == 7

\* the date start_date + k days, formatted "%Y-%m-%d"
PyDate(k) == [t |-> "date", day |-> k]
\* an exact fraction num/den, den > 0
PyFraction(num, den) == [t |-> "frac", num |-> num, den |-> den]

\* the keywords of _generate_synthetic_data that occur in chunk.upper()
ChunkKeywords(c) ==
  CASE c = "products SHOW product_name, inventory_quantity WHERE inventory_quantity < 50" ->
         {"INVENTORY"}
    [] c = "customers SHOW customer_email, COUNT(order_id) AS order_count GROUP BY customer_email HAVING order_count > 1" ->
         {"CUSTOMER"}
    [] c = "customers SHOW email, COUNT(order_id) AS order_count GROUP BY email HAVING order_count > 1" ->
         {"CUSTOMER"}
    [] c = "LIMIT 5" -> {"LIMIT 5"}
    [] OTHER -> {}

\* keyword in query.upper()
QueryHas(q, keyword) == \E k \in 1..Len(q.chunks) : keyword \in ChunkKeywords(q.chunks[k])

\* round(x): the integer nearest to num/den, a tie going to the even one
RoundHalfEven(num, den) ==
  LET quo == num \div den
      rem == num % den
  IN IF 2 * rem < den THEN quo
     ELSE IF 2 * rem > den THEN quo + 1
     ELSE IF quo % 2 = 0 THEN quo ELSE quo + 1

\* int(x) of x = num/den, den > 0: truncation toward zero
Truncate(num, den) == IF num >= 0 THEN num \div den ELSE -((-num) \div den)

\* the draws of one product of _generate_sales_data: base_quantity of
\* np.random.randint(5, 15), the noise of np.random.normal(0, 2) in
\* hundredths (the same on every day), the price of np.random.uniform(20, 50)
\* (integral, the same on every day).  The trend stays below 1, so with
\* these draws a product's quantity is the same on every day.
SalesDraws ==
  {[base |-> 5, noise |-> 0, price |-> 20], [base |-> 14, noise |-> 0, price |-> 50],
   [base |-> 9, noise |-> -2000, price |-> 35]}

SalesProducts == <<"Blue T-Shirt", "Red Hoodie", "Black Jeans", "White Sneakers", "Green Cap">>

\* one row of _generate_sales_data: day k of a product
SalesRow(product, draw, k) ==
  LET \* quantity = max(0, int(base_quantity + trend + noise)), trend = k * 0.01
      quantity == Max(0, Truncate(100 * draw.base + k + draw.noise, 100))
  IN PyDict([date |-> PyDate(k),
             product_name |-> PyStr(product),
             quantity |-> PyNum(quantity),
             total_sales |-> PyNum(quantity * draw.price)])

\* QueryExecutor._generate_sales_data: days 0..HISTORY_DAYS of products[:3]
GenerateSalesData(draws) ==
  LET days == HISTORY_DAYS + 1
  IN [r \in 1..(3 * days) |->
        SalesRow(SalesProducts[((r - 1) \div days) + 1],
                 draws[((r - 1) \div days) + 1],
                 (r - 1) % days)]

InventoryProducts ==
  <<[name |-> "Blue T-Shirt", current_stock |-> 45, daily_velocity |-> 8],
    [name |-> "Red Hoodie", current_stock |-> 120, daily_velocity |-> 5],
    [name |-> "Black Jeans", current_stock |-> 15, daily_velocity |-> 12],
    [name |-> "White Sneakers", current_stock |-> 8, daily_velocity |-> 10],
    [name |-> "Green Cap", current_stock |-> 200, daily_velocity |-> 3]>>

\* QueryExecutor._generate_inventory_data; days_until_stockout in tenths
GenerateInventoryData ==
  [k \in 1..Len(InventoryProducts) |->
     LET product == InventoryProducts[k]
     IN PyDict([product_name |-> PyStr(product.name),
                inventory_quantity |-> PyNum(product.current_stock),
                daily_velocity |-> PyNum(product.daily_velocity),
                days_until_stockout |->
                  PyNum(IF product.daily_velocity > 0
                        THEN RoundHalfEven(10 * product.current_stock, product.daily_velocity)
                        ELSE 9990)])]

Customers ==
  <<[email |-> "john.smith@example.com", orders |-> 5, total_spent |-> 450],
    [email |-> "sarah.jones@example.com", orders |-> 3, total_spent |-> 280],
    [email |-> "mike.brown@example.com", orders |-> 7, total_spent |-> 620],
    [email |-> "emma.davis@example.com", orders |-> 4, total_spent |-> 380],
    [email |-> "alex.wilson@example.com", orders |-> 2, total_spent |-> 190]>>

\* QueryExecutor._generate_customer_data
GenerateCustomerData ==
  LET rows == [k \in 1..Len(Customers) |->
                 PyDict([email |-> PyStr(Customers[k].email),
                         orders |-> PyNum(Customers[k].orders),
                         total_spent |-> PyNum(Customers[k].total_spent)])]
  IN SelectSeq(rows, LAMBDA c : c.d["orders"].n > 1)

RankingProducts ==
  <<[name |-> "Blue T-Shirt", quantity |-> 680, revenue |-> 13600],
    [name |-> "Red Hoodie", quantity |-> 420, revenue |-> 16800],
    [name |-> "Black Jeans", quantity |-> 350, revenue |-> 21000],
    [name |-> "White Sneakers", quantity |-> 290, revenue |-> 23200],
    [name |-> "Green Cap", quantity |-> 180, revenue |-> 3600]>>

\* QueryExecutor._generate_ranking_data
GenerateRankingData(limit) ==
  Take([k \in 1..Len(RankingProducts) |->
          PyDict([name |-> PyStr(RankingProducts[k].name),
                  quantity |-> PyNum(RankingProducts[k].quantity),
                  revenue |-> PyNum(RankingProducts[k].revenue)])], limit)

\* QueryExecutor._generate_synthetic_data
ExecutorSyntheticData(q, draws) ==
  IF QueryHas(q, "INVENTORY") \/ QueryHas(q, "STOCK") THEN GenerateInventoryData
  ELSE IF QueryHas(q, "CUSTOMER") THEN GenerateCustomerData
  ELSE IF QueryHas(q, "TOP") \/ QueryHas(q, "LIMIT 5") THEN GenerateRankingData(5)
  ELSE GenerateSalesData(draws)

\* QueryExecutor._execute_shopify_query: not implemented, returns []
ExecuteShopifyQuery(q) == <<>>

(***************************************************************************)
(* QueryExecutor: forecasting.  Slope, intercept and predictions are exact *)
(* fractions over a common denominator.                                    *)
(***************************************************************************)
RECURSIVE GCD(_, _)
GCD(a, b) == IF b = 0 THEN a ELSE GCD(b, a % b)

Abs(a) == IF a < 0 THEN -a ELSE a

\* s[-n:]
TakeLast(s, n) == SubSeq(s, Max(1, Len(s) - n + 1), Len(s))

\* QueryExecutor._calculate_linear_regression on X = 0..n-1: slope/den and
\* intercept/den.  With B = sum((2x - (n-1)) * y), numerator = B/2 and
\* denominator = n(n^2-1)/12.
CalculateLinearRegression(y) ==
  LET n == Len(y)
      sy == SumSeq(y)
      b == SumSeq([k \in 1..n |-> (2 * (k - 1) - (n - 1)) * y[k]])
      den == n * (n * n - 1)
      slope == 6 * b
      intercept == sy * (n * n - 1) - 3 * b * (n - 1)
      g == GCD(GCD(Abs(slope), Abs(intercept)), den)
  IN IF den = 0
     \* denominator == 0: slope = 0, intercept = y_mean
     THEN [slope |-> 0, intercept |-> sy, den |-> n]
     ELSE [slope |-> slope \div g, intercept |-> intercept \div g, den |-> den \div g]

\* QueryExecutor._calculate_forecast_confidence: max(0.0, min(1.0, R^2)) of
\* the actual values against predicted/den; numpy broadcasts a
\* single prediction and raises ValueError on any other length mismatch
CalculateForecastConfidence(actual, predicted, den) ==
  LET n == Len(actual)
      m == Len(predicted)
      sy == SumSeq(actual)
      \* ss_tot = tot / n
      tot == n * SumSeq([k \in 1..n |-> actual[k] * actual[k]]) - sy * sy
      residual(k) == (IF n = 1 THEN actual[1] ELSE actual[k]) * den
                     - (IF m = 1 THEN predicted[1] ELSE predicted[k])
      \* ss_res = res / den^2
      res == SumSeq([k \in 1..Max(n, m) |-> residual(k) * residual(k)])
      g == GCD(den * den * tot - res * n, den * den * tot)
  IN IF m # n /\ m # 1 /\ n # 1 THEN Raise("ValueError")
     ELSE IF tot = 0 THEN Return(PyFraction(0, 1))
     ELSE IF res * n >= den * den * tot THEN Return(PyFraction(0, 1))
     ELSE Return(PyFraction((den * den * tot - res * n) \div g, (den * den * tot) \div g))

\* the forecast of one product of _apply_forecasting (len(quantities) >= 7);
\* round() is taken on the exact fractions
ForecastProductWith(quantities, config, multiplier) ==
  LET n == Len(quantities)
      reg == CalculateLinearRegression(quantities)
      forecast_days == Get(config, "forecast_days", PyNum(30))
      days == IF forecast_days.t = "bool" THEN (IF forecast_days.b THEN 1 ELSE 0)
              ELSE forecast_days.n
      \* np.maximum(slope * future_X + intercept, 0), future_X = n .. n+days-1
      predictions == [k \in 1..Max(0, days) |->
                        Max(0, reg.slope * (n + k - 1) + reg.intercept)]
      recent == IF n >= 30 THEN TakeLast(quantities, 30) ELSE quantities
      total_forecast == SumSeq(predictions)
      confidence == CalculateForecastConfidence(quantities, Take(predictions, n), reg.den)
  IN IF forecast_days.t \notin {"num", "bool"} THEN Raise("TypeError")
     ELSE IF Raised(confidence) THEN confidence
     ELSE Return(PyDict(
            [daily_velocity |-> PyNum(RoundHalfEven(10 * SumSeq(recent), Len(recent))),
             forecast_quantity |-> PyNum(RoundHalfEven(total_forecast, reg.den)),
             safety_stock |->
               PyNum(RoundHalfEven(total_forecast * (multiplier - 100), 100 * reg.den)),
             total_needed |->
               PyNum(RoundHalfEven(total_forecast * multiplier, 100 * reg.den)),
             forecast_days |-> forecast_days,
             confidence |-> confidence.value]))

\* the same with settings.SAFETY_STOCK_MULTIPLIER at its default
ForecastProduct(quantities, config) ==
  ForecastProductWith(quantities, config, SAFETY_STOCK_MULTIPLIER)

\* row.get("product_name", "unknown") as a key of the products dict
ProductOf(row) == Get(row, "product_name", PyStr("unknown")).s

\* faulty variant: a row that carries a forecast counts with the forecast's
\* quantity instead of its own
QuantitiesOfForecasts(data, product) ==
  LET rows == SelectSeq(data, LAMBDA row : ProductOf(row) = product)
  IN [k \in 1..Len(rows) |->
        IF HasKey(rows[k], "forecast") THEN rows[k].d["forecast"].d["forecast_quantity"].n
        ELSE Get(rows[k], "quantity", PyNum(0)).n]

\* [row.get("quantity", 0) for row in product_data]
QuantitiesOf(data, product) ==
  LET rows == SelectSeq(data, LAMBDA row : ProductOf(row) = product)
  IN [k \in 1..Len(rows) |-> Get(rows[k], "quantity", PyNum(0)).n]

\* QueryExecutor._apply_forecasting.  The products are forecast in the order
\* of their first row and the first exception ends the call; for one config
\* every product that raises raises the same exception.
ApplyForecastingWith(data, config, multiplier) ==
  LET products == {ProductOf(data[k]) : k \in 1..Len(data)}
      forecast == {p \in products : Len(QuantitiesOf(data, p)) >= MIN_OBSERVATIONS}
      outcome(p) == ForecastProductWith(QuantitiesOf(data, p), config, multiplier)
  IN \* method=config.get("method")
     IF ~IsDict(config) THEN Raise("AttributeError")
     ELSE IF data = <<>>
     THEN Return(PyDict([forecast |-> PyList(<<>>), method |-> PyStr("none")]))
     ELSE IF \E p \in forecast : Raised(outcome(p))
     THEN CHOOSE o \in {outcome(p) : p \in forecast} : Raised(o)
     ELSE Return(PyDict([forecasts |-> PyDict([p \in forecast |-> outcome(p).value]),
                         method |-> PyStr("linear_regression"),
                         config |-> config]))

\* the same with settings.SAFETY_STOCK_MULTIPLIER at its default
ApplyForecasting(data, config) ==
  ApplyForecastingWith(data, config, SAFETY_STOCK_MULTIPLIER)

\* faulty variant: the merge returns the rows that received a forecast only
MergeForecastedRowsOnly(data, forecast) ==
  LET forecasts == Get(forecast, "forecasts", EmptyDict)
      forecasted(row) == Get(row, "product_name", PyNone).t = "str"
                         /\ HasKey(forecasts, Get(row, "product_name", PyNone).s)
      kept == SelectSeq(data, forecasted)
  IN [k \in 1..Len(kept) |-> SetKey(kept[k], "forecast", forecasts.d[kept[k].d["product_name"].s])]

\* QueryExecutor._merge_forecast_with_data
MergeForecastWithData(data, forecast) ==
  LET forecasts == Get(forecast, "forecasts", EmptyDict)
  IN [k \in 1..Len(data) |->
        LET product_name == Get(data[k], "product_name", PyNone)
        IN IF product_name.t = "str" /\ HasKey(forecasts, product_name.s)
           THEN SetKey(data[k], "forecast", forecasts.d[product_name.s])
           ELSE data[k]]

(***************************************************************************)
(* QueryExecutor.execute                                                   *)
(***************************************************************************)
\* faulty variant: forecast_applied tells whether a row received a forecast
ExecuteBodyAppliedIfMerged(q, p, demo_mode, draws) ==
  LET data == IF demo_mode THEN ExecutorSyntheticData(q, draws) ELSE ExecuteShopifyQuery(q)
      forecast == ApplyForecasting(data, Get(p, "forecast_config", EmptyDict))
      result(rows, forecast_applied) ==
        Return(PyDict([data |-> PyList(rows),
                       forecast_applied |-> PyBool(forecast_applied),
                       row_count |-> PyNum(Len(rows)),
                       query_executed |-> q]))
      merged == MergeForecastWithData(data, forecast.value)
  IN IF ~IsDict(p) THEN Raise("AttributeError")
     ELSE IF Truthy(Get(p, "requires_forecast", PyNone))
     THEN IF Raised(forecast) THEN forecast
          ELSE result(merged, \E k \in 1..Len(merged) : HasKey(merged[k], "forecast"))
     ELSE result(data, FALSE)

\* the try block of execute
ExecuteBody(q, p, demo_mode, draws) ==
  LET data == IF demo_mode THEN ExecutorSyntheticData(q, draws) ELSE ExecuteShopifyQuery(q)
      forecast == ApplyForecasting(data, Get(p, "forecast_config", EmptyDict))
      result(rows, forecast_applied) ==
        Return(PyDict([data |-> PyList(rows),
                       forecast_applied |-> PyBool(forecast_applied),
                       row_count |-> PyNum(Len(rows)),
                       query_executed |-> q]))
  IN IF ~IsDict(p) THEN Raise("AttributeError")
     ELSE IF Truthy(Get(p, "requires_forecast", PyNone))
     THEN IF Raised(forecast) THEN forecast
          ELSE result(MergeForecastWithData(data, forecast.value), TRUE)
     ELSE result(data, FALSE)

\* the result of the except clause of execute
ExecuteErrorResult(e) ==
  PyDict([data |-> PyList(<<>>),
          forecast_applied |-> PyBool(FALSE),
          row_count |-> PyNum(0),
          error |-> PyStr(e)])

\* faulty variant: execute without its except clause
ExecuteUncaught(q, p, demo_mode, draws) == ExecuteBody(q, p, demo_mode, draws)

\* QueryExecutor.execute
Execute(q, p, demo_mode, draws) ==
  LET body == ExecuteBody(q, p, demo_mode, draws)
  IN IF Raised(body) THEN Return(ExecuteErrorResult(body.exc)) ELSE body

(***************************************************************************)
(* Inputs of the stage calls (specification SpecStages)                    *)
(***************************************************************************)
\* completion texts hold up to MaxJsonTextLen chunks around a JSON document,
\* query completions up to MaxTextLen chunks
MaxJsonTextLen == 3
MaxTextLen == 4

Absent == [t |-> "absent"]
\* the dict of the keys of rec that are present
MakeDict(rec) == PyDict([k \in {kk \in DOMAIN rec : rec[kk] # Absent} |-> rec[k]])

JsonLayouts == SeqsUpTo({FENCE, "json", NL, JSONDOC, PROSE}, MaxJsonTextLen)
BareLayout == <<JSONDOC>>
FencedLayout == <<FENCE, "json", NL, JSONDOC, NL, FENCE>>
NamedLayouts ==
  {BareLayout, FencedLayout, <<PROSE>>, <<SP, JSONDOC, NL>>, <<FENCE, JSONDOC, FENCE>>,
   <<PROSE, NL, NL, FENCE, "json", NL, JSONDOC, NL, FENCE>>}

\* JSON documents that are not objects
NonObjectDocs == {PyNone, PyNum(7), PyStr("sales_analysis"), PyList(<<>>)}

IntentDocs ==
  {MakeDict([domain |-> d, confidence |-> c, entities |-> e, time_range |-> tr,
             requires_forecast |-> rf]) :
     d \in {Absent, PyStr("inventory_forecasting"), PyStr("product_ranking"),
            PyStr("bogus"), PyNone, PyNum(3)},
     c \in {Absent, PyNum(92), PyNum(150), PyNum(-20), PyBool(TRUE), PyStr("high"), PyNone},
     e \in {Absent, PyDict([product_name |-> PyStr("Blue T-Shirt")])},
     tr \in {Absent, PyStr("next_30_days")},
     rf \in {Absent, PyBool(TRUE)}}
  \cup NonObjectDocs

CoreIntentDocs ==
  {MakeDict([domain |-> PyStr("inventory_forecasting"), confidence |-> PyNum(92),
             requires_forecast |-> PyBool(TRUE)]),
   MakeDict([domain |-> PyStr("bogus"), confidence |-> PyNum(150)]),
   PyList(<<>>)}

SampleQuestions == {<<"sales">>, <<"How many", "will I need">>}
DomainQuestions == {<<"Forecast">>, <<"stock">>, <<"Customer">>, <<"top">>, <<"sales">>}

ClassifyServices ==
  {ServiceRaises, ServiceEmpty}
  \cup {ServiceText(JsonText(l, j)) : l \in NamedLayouts, j \in IntentDocs}
  \cup {ServiceText(JsonText(l, j)) : l \in JsonLayouts, j \in CoreIntentDocs}

PlanDocs ==
  {MakeDict([data_sources |-> ds, primary_metric |-> pm, filters |-> fl,
             requires_forecast |-> rf, forecast_config |-> fc, group_by |-> gb]) :
     ds \in {Absent, PyList(<<PyStr("orders")>>), PyList(<<PyStr("products")>>),
             PyList(<<>>), PyNone},
     pm \in {Absent, PyStr("order_count")},
     fl \in {Absent, PyDict([date_range |-> PyStr("last_90_days")]), PyNone},
     rf \in {Absent, PyBool(TRUE), PyBool(FALSE)},
     fc \in {Absent, DefaultForecastConfig, PyDict([forecast_days |-> PyNum(7)]), PyNone},
     gb \in {Absent, PyList(<<PyStr("product_name")>>), PyNone}}
  \cup NonObjectDocs

CorePlanDocs ==
  {MakeDict([requires_forecast |-> PyBool(TRUE)]),
   MakeDict([data_sources |-> PyList(<<PyStr("customers")>>),
             group_by |-> PyList(<<>>)]),
   PyNum(7)}

\* the intents a plan call is given: one per domain, and the safe default
PlanIntents == {MockIntentClassification(q) : q \in DomainQuestions} \cup {DefaultIntent}

PlanServices ==
  {ServiceRaises, ServiceEmpty}
  \cup {ServiceText(JsonText(l, j)) : l \in {BareLayout, FencedLayout, <<PROSE>>}, j \in PlanDocs}
  \cup {ServiceText(JsonText(l, j)) : l \in JsonLayouts, j \in CorePlanDocs}

\* every plan QueryPlanner.plan returns on these inputs
PlannerPlans ==
  {o.value : o \in {oo \in {PlanQuery(<<"sales">>, i, s) : i \in PlanIntents, s \in PlanServices} :
                      Returned(oo)}}

WORDS == "orders SHOW product_name"
QueryTexts ==
  {PyText(cs) : cs \in SeqsUpTo({"FROM", "from", WORDS, SP, NL, FENCE, "sql"}, MaxTextLen)}
  \cup {PyText(<<ESZETT>> \o cs) :
          cs \in SeqsUpTo({"FROM", "from", WORDS, SP, NL, FENCE, "sql"}, MaxTextLen - 1)}
  \cup {PyText(<<"Here is the query:", NL, NL, "FROM", SP, WORDS, NL, NL,
                 "Let me know if you need more.">>)}

\* the plans an execute call is given: the plans the planner completes from
\* these documents, the documents themselves, and the orchestrator's plans
ExecutePlanDocs ==
  {MakeDict([requires_forecast |-> rf, forecast_config |-> fc]) :
     rf \in {Absent, PyBool(TRUE), PyBool(FALSE)},
     fc \in {Absent, DefaultForecastConfig, EmptyDict, PyNone, PyStr("linear_regression"),
             PyDict([forecast_days |-> PyNum(7)]), PyDict([forecast_days |-> PyNum(1)]),
             PyDict([forecast_days |-> PyNum(0)]), PyDict([forecast_days |-> PyNum(120)]),
             PyDict([forecast_days |-> PyStr("30")])}}

ExecutePlans ==
  ExecutePlanDocs
  \cup {CompletePlan(d).value : d \in ExecutePlanDocs}
  \cup {MockQueryPlanning(i) : i \in PlanIntents}

\* the queries an execute call is given: the template queries, the
\* orchestrator's queries, the empty string and a text without FROM
ExecuteQueries ==
  {GetDefaultQuery(MakeDict([data_sources |-> PyList(<<PyStr(source)>>), filters |-> fl,
                             group_by |-> PyList(<<>>)])).value :
     source \in {"orders", "products", "customers"},
     fl \in {EmptyDict, PyDict([date_range |-> PyStr("last_90_days")])}}
  \cup {MockShopifyqlGeneration(i, MockQueryPlanning(i)) : i \in PlanIntents}
  \cup {PyText(<<>>), PyText(<<"sql">>)}


(***************************************************************************)
(* Stage calls: each action applies one stage to an input of its own.      *)
(***************************************************************************)
UnchangedRequest ==
  UNCHANGED <<pc, question, shop_domain, intent, plan, query, execution_result,
              insights, exc, response, calls, server>>

\* IntentClassifier.classify(question)
CallClassify ==
  /\ call = NoCall
  /\ \E q \in SampleQuestions, s \in ClassifyServices :
       call' = [op |-> "classify", question |-> q, service |-> s, out |-> Classify(q, s)]
  /\ UnchangedRequest

\* AgentOrchestrator._mock_intent_classification(question)
CallMockClassify ==
  /\ call = NoCall
  /\ \E q \in Questions :
       call' = [op |-> "mock_classify", question |-> q,
                out |-> Return(MockIntentClassification(q))]
  /\ UnchangedRequest

\* AgentOrchestrator._generate_synthetic_data(plan)
CallMockData ==
  /\ call = NoCall
  /\ \E p \in {MockQueryPlanning(i) : i \in PlanIntents},
        draws \in [1..Len(MockProducts) -> RandomDraws] :
       call' = [op |-> "mock_data", plan |-> p, out |-> Return(GenerateSyntheticData(p, draws))]
  /\ UnchangedRequest

\* AgentOrchestrator._mock_query_planning(intent)
CallMockPlan ==
  /\ call = NoCall
  /\ \E i \in PlanIntents :
       call' = [op |-> "mock_plan", intent |-> i, out |-> Return(MockQueryPlanning(i))]
  /\ UnchangedRequest

\* QueryPlanner.plan(question, intent)
CallPlan ==
  /\ call = NoCall
  /\ \E i \in PlanIntents, s \in PlanServices :
       call' = [op |-> "plan", question |-> <<"sales">>, intent |-> i, service |-> s,
                out |-> PlanQuery(<<"sales">>, i, s)]
  /\ UnchangedRequest

\* ShopifyQLGenerator.generate(question, intent, plan): the completion
\* service answers (any text), or fails (any plan of the planner)
CallGenerate ==
  /\ call = NoCall
  /\ \/ \E t \in QueryTexts :
          call' = [op |-> "generate", question |-> <<"sales">>, intent |-> DefaultIntent,
                   plan |-> ParseErrorPlan, service |-> ServiceText(t),
                   out |-> Generate(<<"sales">>, DefaultIntent, ParseErrorPlan, ServiceText(t))]
     \/ \E p \in PlannerPlans, s \in {ServiceRaises, ServiceEmpty} :
          call' = [op |-> "generate", question |-> <<"sales">>, intent |-> DefaultIntent,
                   plan |-> p, service |-> s,
                   out |-> Generate(<<"sales">>, DefaultIntent, p, s)]
  /\ UnchangedRequest

\* AgentOrchestrator._mock_shopifyql_generation(intent, plan)
CallMockGenerate ==
  /\ call = NoCall
  /\ \E q \in DomainQuestions :
       call' = [op |-> "mock_generate", intent |-> MockIntentClassification(q),
                plan |-> MockQueryPlanning(MockIntentClassification(q)),
                out |-> Return(MockShopifyqlGeneration(MockIntentClassification(q),
                                 MockQueryPlanning(MockIntentClassification(q))))]
  /\ UnchangedRequest

\* QueryExecutor.execute(query, shop_domain, access_token, plan), with
\* settings.DEMO_MODE and the draws of the three products of the sales data
CallExecute ==
  /\ call = NoCall
  /\ \E q \in ExecuteQueries, p \in ExecutePlans, demo_mode \in BOOLEAN,
        draws \in [1..3 -> SalesDraws] :
       call' = [op |-> "execute", query |-> q, plan |-> p, demo_mode |-> demo_mode,
                draws |-> draws, out |-> Execute(q, p, demo_mode, draws)]
  /\ UnchangedRequest

\* the call has returned to its caller
CallReturns ==
  /\ call # NoCall
  /\ call' = NoCall
  /\ UnchangedRequest

NextStages ==
  \/ CallClassify
  \/ CallMockClassify
  \/ CallMockPlan
  \/ CallPlan
  \/ CallGenerate
  \/ CallMockGenerate
  \/ CallMockData
  \/ CallExecute
  \/ CallReturns

SpecStages == Init /\ [][NextStages]_vars

(***************************************************************************)
(* Claims on the stage calls (specification SpecStages)                    *)
(***************************************************************************)
IsClassifierCall == call.op \in {"classify", "mock_classify"}
\* the completion service answered with this layout of chunks
AnsweredWith(layout) ==
  /\ call.service.kind = "text"
  /\ call.service.text.chunks = layout
\* the completion service answered with a text that holds no JSON document
AnsweredWithoutJson ==
  /\ call.service.kind = "text"
  /\ \A k \in 1..Len(call.service.text.chunks) : call.service.text.chunks[k] # JSONDOC
ServiceFailed == call.service.kind \in {"raise", "empty"}
IsDomainValue(v) == v.t = "str" /\ v.s \in INTENT_DOMAINS

\* C3: every Intent a classifier produces (classify on any completion text or
\* failure, _mock_intent_classification on any question) has its domain in
\* the five domains and 0 <= confidence <= 1; a parsed domain outside the set
\* is replaced by sales_analysis, the rest of the parsed object being kept.
C3_IntentDomainAndConfidence ==
  /\ IsClassifierCall =>
       /\ Returned(call.out)
       /\ IsDict(call.out.value)
       /\ HasKey(call.out.value, "domain") /\ HasKey(call.out.value, "confidence")
       /\ IsDomainValue(call.out.value.d["domain"])
       /\ IsNum(call.out.value.d["confidence"])
       /\ call.out.value.d["confidence"].n \in 0..100
  /\ ( /\ call.op = "classify"
       /\ AnsweredWith(BareLayout)
       /\ IsDict(call.service.text.json)
       /\ ~IsDomainValue(Get(call.service.text.json, "domain", PyNone))
       /\ Get(call.service.text.json, "confidence", PyNum(50)).t = "num" ) =>
       /\ call.out.value.d["domain"] = PyStr("sales_analysis")
       /\ \A k \in Keys(call.service.text.json) \ {"domain", "confidence"} :
            call.out.value.d[k] = call.service.text.json.d[k]
       /\ call.out.value.d["confidence"].n =
            LET c == Get(call.service.text.json, "confidence", PyNum(50)).n
            IN IF c > 100 THEN 100 ELSE IF c < 0 THEN 0 ELSE c

\* witness of C3: a parsed object with a domain outside the set and a
\* confidence above 1 came back as sales_analysis with confidence 1
C3_Witness ==
  /\ call.op = "classify"
  /\ AnsweredWith(BareLayout)
  /\ IsDict(call.service.text.json)
  /\ Get(call.service.text.json, "domain", PyNone) = PyStr("bogus")
  /\ Get(call.service.text.json, "confidence", PyNone) = PyNum(150)
  /\ HasKey(call.service.text.json, "entities")
  /\ call.out.value.d["domain"] = PyStr("sales_analysis")
  /\ call.out.value.d["confidence"] = PyNum(100)

\* the confidence of the JSON object the service sent is not a number
NonNumericConfidence(json) ==
  /\ IsDict(json)
  /\ HasKey(json, "confidence")
  /\ json.d["confidence"].t \notin {"num", "bool"}

\* C4: classify never raises; when the completion service raises, or its
\* text is not valid JSON, or is JSON that is not an object, or has a
\* non-numeric confidence, classify returns exactly the safe default Intent
\* {sales_analysis, 0.3, {}, last_30_days, false}.
C4_ClassifySafeDefault ==
  call.op = "classify" =>
    /\ Returned(call.out)
    /\ ( \/ ServiceFailed
         \/ AnsweredWithoutJson
         \/ /\ AnsweredWith(BareLayout) \/ AnsweredWith(FencedLayout)
            /\ ~IsDict(call.service.text.json) \/ NonNumericConfidence(call.service.text.json) ) =>
         call.out.value =
           PyDict([domain |-> PyStr("sales_analysis"),
                   confidence |-> PyNum(30),
                   entities |-> EmptyDict,
                   time_range |-> PyStr("last_30_days"),
                   requires_forecast |-> PyBool(FALSE)])

\* witness of C4: a JSON object with a valid domain and the confidence "high"
\* came back as the safe default
C4_Witness ==
  /\ call.op = "classify"
  /\ AnsweredWith(FencedLayout)
  /\ IsDict(call.service.text.json)
  /\ Get(call.service.text.json, "domain", PyNone) = PyStr("inventory_forecasting")
  /\ Get(call.service.text.json, "confidence", PyNone) = PyStr("high")
  /\ call.out = Return(DefaultIntent)

\* the default-table entry of the claims C5 and C6 for the call's intent
DefaultTablePlan ==
  LET d == call.intent.d["domain"].s
  IN IF d \in DOMAIN DefaultPlans THEN DefaultPlans[d] ELSE DefaultPlans["sales_analysis"]

\* C5 (as claimed): plan never raises; when the completion-service call
\* raises, plan returns the default-table Plan of intent.domain.
C5_PlanNeverRaises ==
  call.op = "plan" =>
    /\ Returned(call.out)
    /\ ServiceFailed => call.out = Return(DefaultTablePlan)

\* C6 (as claimed): on every planning error, a completion that is not valid
\* JSON included, the Plan returned is the default-table entry of
\* intent.domain; for inventory_forecasting it has requires_forecast = true
\* and forecast_config = {linear_regression, 90, 30}.
C6_ParseErrorUsesDefaultTable ==
  (call.op = "plan" /\ AnsweredWithoutJson) =>
    /\ call.out = Return(DefaultTablePlan)
    /\ call.intent.d["domain"] = PyStr("inventory_forecasting") =>
         /\ Returned(call.out)
         /\ Get(call.out.value, "requires_forecast", PyNone) = PyBool(TRUE)
         /\ Get(call.out.value, "forecast_config", PyNone) =
              PyDict([method |-> PyStr("linear_regression"),
                      historical_days |-> PyNum(90),
                      forecast_days |-> PyNum(30)])

\* C7 (as claimed): generate never raises for any Plan the planner can
\* return; when the completion service raises it returns the template query
\* of the plan's first data source, also when data_sources is missing or
\* empty.
C7_GenerateNeverRaises ==
  (call.op = "generate" /\ call.plan \in PlannerPlans) =>
    /\ Returned(call.out)
    /\ ServiceFailed => StartsWithFrom(call.out.value.chunks)

\* C8 (as claimed): every string returned by generate and by
\* _mock_shopifyql_generation begins with FROM (in any case) or is empty.
C8_QueryStartsWithFrom ==
  (call.op \in {"generate", "mock_generate"} /\ Returned(call.out)) =>
    \/ call.out.value.chunks = <<>>
    \/ IsFromChunk(call.out.value.chunks[1])

\* the paragraphs of a cleaned text: the maximal runs between blank lines
Paragraphs(cs) == SplitBlankLines(cs, <<>>)
Qualifies(para) == StartsWithFrom(Strip(para))
FromAt(cs) == {k \in 1..Len(cs) : cs[k] \in {"FROM", "from"}}

\* C9 (as claimed): after fence stripping, a text of several blank-line separated
\* paragraphs yields the first paragraph whose trimmed upper-cased form
\* starts with FROM, trimmed, the later ones discarded; when no paragraph
\* qualifies but FROM occurs, it yields the text from the first FROM on; the
\* three-paragraph example yields exactly FROM orders SHOW product_name.
C9_QueryCleanup ==
  (call.op = "generate" /\ call.service.kind = "text") =>
    LET cleaned == UnfenceQuery(call.service.text.chunks)
        paras == Paragraphs(cleaned)
        good == {k \in 1..Len(paras) : Qualifies(paras[k])}
        result == call.out.value.chunks
    IN /\ Returned(call.out)
       /\ (Len(paras) > 1 /\ good # {}) =>
            result = Strip(paras[CHOOSE k \in good : \A j \in good : k <= j])
       /\ (good = {} /\ FromAt(cleaned) # {}) =>
            /\ result = SubSeq(cleaned, CHOOSE k \in FromAt(cleaned) : \A j \in FromAt(cleaned) : k <= j,
                               Len(cleaned))
       /\ call.service.text.chunks =
            <<"Here is the query:", NL, NL, "FROM", SP, WORDS, NL, NL,
              "Let me know if you need more.">> =>
            result = <<"FROM", SP, "orders SHOW product_name">>

\* an exception is raised inside the try block of this execute call: the
\* plan asks for a forecast and its forecast_config is not a dict, or the
\* sales history is forecast over a number of days that is not a number or
\* is neither 1 nor at least the length of the history
ForecastConfigOf(p) == Get(p, "forecast_config", EmptyDict)
ForecastDaysOf(p) == Get(ForecastConfigOf(p), "forecast_days", PyNum(30))
HasHistory(c) ==
  /\ c.demo_mode
  /\ \A keyword \in {"INVENTORY", "STOCK", "CUSTOMER", "TOP", "LIMIT 5"} :
       ~QueryHas(c.query, keyword)
ExecuteFaults(c) ==
  /\ Truthy(Get(c.plan, "requires_forecast", PyNone))
  /\ \/ ~IsDict(ForecastConfigOf(c.plan))
     \/ /\ HasHistory(c)
        /\ \/ ~IsNum(ForecastDaysOf(c.plan))
           \/ /\ ForecastDaysOf(c.plan).n # 1
              /\ ForecastDaysOf(c.plan).n < HISTORY_DAYS + 1

\* C10: QueryExecutor.execute never raises; when an exception is raised
\* during data acquisition, forecasting or merging the result is exactly
\* {data: [], forecast_applied: false, row_count: 0, error: <message>}, and
\* every other result is a success result without an error key, for every
\* query and every plan, a missing or null forecast_config included
C10_ExecuteNeverRaises ==
  call.op = "execute" =>
    /\ Returned(call.out)
    /\ LET result == call.out.value
       IN IF ExecuteFaults(call)
          THEN /\ Keys(result) = {"data", "forecast_applied", "row_count", "error"}
               /\ result.d["data"] = PyList(<<>>)
               /\ result.d["forecast_applied"] = PyBool(FALSE)
               /\ result.d["row_count"] = PyNum(0)
               /\ result.d["error"].t = "str"
               /\ result.d["error"].s \in {"AttributeError", "TypeError", "ValueError"}
          ELSE /\ Keys(result) = {"data", "forecast_applied", "row_count", "query_executed"}
               /\ result.d["row_count"] = PyNum(Len(result.d["data"].items))
               /\ result.d["forecast_applied"] =
                    PyBool(Truthy(Get(call.plan, "requires_forecast", PyNone)))
               /\ result.d["query_executed"] = call.query

\* witness of C10: execute has returned the error result for a plan that
\* requires a forecast and whose forecast_config is null
C10_Witness ==
  /\ call.op = "execute"
  /\ Get(call.plan, "requires_forecast", PyNone) = PyBool(TRUE)
  /\ Get(call.plan, "forecast_config", Absent) = PyNone
  /\ call.out = Return(PyDict([data |-> PyList(<<>>),
                               forecast_applied |-> PyBool(FALSE),
                               row_count |-> PyNum(0),
                               error |-> PyStr("AttributeError")]))

(***************************************************************************)
(* Forecast engine calls (specification SpecForecast): _apply_forecasting  *)
(* and _merge_forecast_with_data applied to rows of their own, under a     *)
(* SAFETY_STOCK_MULTIPLIER of its own.                                     *)
(***************************************************************************)
\* a product's history holds MinSeriesLen..MaxSeriesLen observations
MaxSeriesLen == 8
MinSeriesLen == MIN_OBSERVATIONS - 1

\* the quantity on day k (1..n) of a history of each shape
SeriesShapes == {"none", "flat", "rising", "falling", "spike", "step", "zigzag"}
ShapeValue(shape, k, n) ==
  CASE shape = "none" -> 0
    [] shape = "flat" -> 2
    [] shape = "rising" -> k - 1
    [] shape = "falling" -> n - k
    [] shape = "spike" -> IF k = n THEN 1 ELSE 0
    [] shape = "step" -> IF 2 * k > n THEN 3 ELSE 1
    [] shape = "zigzag" -> 2 * (k % 2)

SeriesOf(shape, n) == [k \in 1..n |-> ShapeValue(shape, k, n)]
SeriesSet == {SeriesOf(shape, n) : shape \in SeriesShapes, n \in MinSeriesLen..MaxSeriesLen}

\* rows of a product, one per observation
NamedRows(product, series) ==
  [k \in 1..Len(series) |->
     PyDict([date |-> PyDate(k - 1), product_name |-> PyStr(product),
             quantity |-> PyNum(series[k])])]
\* rows that have no product_name key
NamelessRows(series) ==
  [k \in 1..Len(series) |->
     PyDict([date |-> PyDate(k - 1), name |-> PyStr("Green Cap"),
             quantity |-> PyNum(series[k])])]

\* the rows of a and of b in turn (Len(a) = Len(b))
Interleave(a, b) ==
  [k \in 1..(2 * Len(a)) |-> IF k % 2 = 1 THEN a[(k + 1) \div 2] ELSE b[k \div 2]]

\* the data of a forecast call: one product's history, alone, followed by
\* the rows of another product or by rows without product_name, or
\* interleaved with another product's rows
ForecastData ==
  {NamedRows("Blue T-Shirt", s) \o rest :
     s \in SeriesSet,
     rest \in {<<>>,
               NamedRows("Red Hoodie", SeriesOf("rising", 3)),
               NamedRows("Red Hoodie", SeriesOf("falling", MIN_OBSERVATIONS)),
               NamelessRows(SeriesOf("flat", 3)),
               NamelessRows(SeriesOf("spike", MIN_OBSERVATIONS))}}
  \cup {Interleave(NamedRows("Blue T-Shirt", s), NamedRows("Red Hoodie", SeriesOf("zigzag", Len(s)))) :
          s \in SeriesSet}
  \cup {<<>>}

\* the forecast_config of a forecast call
ForecastConfigs ==
  {EmptyDict, DefaultForecastConfig}
  \cup {PyDict([forecast_days |-> PyNum(d)]) : d \in {0, 1, 5} \cup MinSeriesLen..(MaxSeriesLen + 1)}

\* settings.SAFETY_STOCK_MULTIPLIER (ge=1.0, le=2.0), in hundredths
Multipliers == {100, 120, 150, 175, 200}

\* lines 63-64 of execute: the engine's forecast merged into the data
ForecastEngine(data, config, multiplier) ==
  LET forecast == ApplyForecastingWith(data, config, multiplier)
  IN IF Raised(forecast) THEN forecast
     ELSE Return(MergeForecastWithData(data, forecast.value))

\* _apply_forecasting and _merge_forecast_with_data on data; `again` is
\* _apply_forecasting called once more on the rows the merge has written to
CallForecast ==
  /\ call = NoCall
  /\ \E data \in ForecastData, config \in ForecastConfigs, multiplier \in Multipliers :
       LET out == ForecastEngine(data, config, multiplier)
       IN call' = [op |-> "forecast", data |-> data, config |-> config,
                   multiplier |-> multiplier,
                   forecast |-> ApplyForecastingWith(data, config, multiplier),
                   out |-> out,
                   again |-> IF Raised(out) THEN out
                             ELSE ApplyForecastingWith(out.value, config, multiplier)]
  /\ UnchangedRequest

NextForecast ==
  \/ CallForecast
  \/ CallMockData
  \/ CallReturns

SpecForecast == Init /\ [][NextForecast]_vars

(***************************************************************************)
(* Claims on the forecast engine (specification SpecForecast)              *)
(***************************************************************************)
\* the rows a forecast call or an execute call with forecast_applied = true
\* has returned, else no rows
ForecastedRows ==
  IF call.op = "forecast" /\ Returned(call.out) THEN call.out.value
  ELSE IF call.op = "execute" /\ Returned(call.out)
          /\ Get(call.out.value, "forecast_applied", PyNone) = PyBool(TRUE)
  THEN call.out.value.d["data"].items
  ELSE <<>>
\* the rows of the product of row k, rows without product_name being the
\* rows of the product "unknown"
SameProduct(rows, k) == {j \in 1..Len(rows) : ProductOf(rows[j]) = ProductOf(rows[k])}

\* C11 (as claimed): in every result with forecast_applied = true, every
\* row whose product has at least 7 rows carries a forecast object, the same
\* on all rows of the product; rows without product_name, grouped under
\* "unknown", included.
C11_EveryRowCarriesForecast ==
  \A k \in 1..Len(ForecastedRows) :
    Cardinality(SameProduct(ForecastedRows, k)) >= MIN_OBSERVATIONS =>
      /\ HasKey(ForecastedRows[k], "forecast")
      /\ \A j \in SameProduct(ForecastedRows, k) :
           /\ HasKey(ForecastedRows[j], "forecast")
           /\ ForecastedRows[j].d["forecast"] = ForecastedRows[k].d["forecast"]

\* the forecast objects of the call: those the engine computed, or those on
\* the rows of the orchestrator's synthetic data
ForecastObjects ==
  IF call.op = "forecast" /\ Returned(call.forecast)
  THEN LET forecasts == Get(call.forecast.value, "forecasts", EmptyDict)
       IN {forecasts.d[p] : p \in Keys(forecasts)}
  ELSE IF call.op = "mock_data"
  THEN LET rows == call.out.value.d["data"].items
       IN {rows[k].d["forecast"] : k \in {j \in 1..Len(rows) : HasKey(rows[j], "forecast")}}
  ELSE {}

\* C12 (as claimed): every forecast object, of the engine under any
\* SAFETY_STOCK_MULTIPLIER in [1.0, 2.0] and of the orchestrator's synthetic
\* generator, has total_needed = forecast_quantity + safety_stock exactly,
\* on the values as stored.
C12_TotalNeededIsSum ==
  \A f \in ForecastObjects :
    f.d["total_needed"].n = f.d["forecast_quantity"].n + f.d["safety_stock"].n

\* the products of the data of a forecast call that have at least 7 rows
HistoryProducts(data) ==
  {ProductOf(data[k]) : k \in {j \in 1..Len(data) :
                                 Cardinality(SameProduct(data, j)) >= MIN_OBSERVATIONS}}

\* C13 (as claimed): for a plan with requires_forecast = true and
\* forecast_days = 30, execute over the synthetic sales series (a 90-day
\* window) returns no error, forecast_applied = true, a non-empty data list
\* and a forecast on every row; and the engine forecasts every product of
\* n >= 7 observations, whether n is below, equal to or above forecast_days.
C13_ForecastSucceeds ==
  /\ ( /\ call.op = "execute"
       /\ HasHistory(call)
       /\ Get(call.plan, "requires_forecast", PyNone) = PyBool(TRUE)
       /\ IsDict(ForecastConfigOf(call.plan))
       /\ ForecastDaysOf(call.plan) = PyNum(30) ) =>
       /\ Returned(call.out)
       /\ ~HasKey(call.out.value, "error")
       /\ call.out.value.d["forecast_applied"] = PyBool(TRUE)
       /\ call.out.value.d["data"].items # <<>>
       /\ \A k \in 1..Len(call.out.value.d["data"].items) :
            HasKey(call.out.value.d["data"].items[k], "forecast")
  /\ ( /\ call.op = "forecast"
       /\ Get(call.config, "forecast_days", PyNum(30)).n >= 1 ) =>
       /\ Returned(call.forecast)
       /\ \A p \in HistoryProducts(call.data) :
            HasKey(Get(call.forecast.value, "forecasts", EmptyDict), p)

\* R^2 of the fitted line over the observed window: the fitted values
\* slope * x + intercept at x = 0..n-1 against the observed quantities,
\* 1 - SS_res/SS_tot clamped to [0, 1], 0 when SS_tot = 0
FittedConfidence(quantities) ==
  LET reg == CalculateLinearRegression(quantities)
      fitted == [k \in 1..Len(quantities) |-> reg.slope * (k - 1) + reg.intercept]
  IN CalculateForecastConfidence(quantities, fitted, reg.den).value

\* C14 (as claimed): the confidence of a product's forecast is the R^2 of
\* the fitted regression line over the observed window, not a value
\* computed from the projected future points.
C14_ConfidenceIsFitQuality ==
  (call.op = "forecast" /\ Returned(call.forecast)) =>
    LET forecasts == Get(call.forecast.value, "forecasts", EmptyDict)
    IN \A p \in Keys(forecasts) :
         forecasts.d[p].d["confidence"] = FittedConfidence(QuantitiesOf(call.data, p))

\* the quantities of the product are all identical
ZeroVariance(quantities) == \A j, k \in 1..Len(quantities) : quantities[j] = quantities[k]

\* C15 (as claimed): every product with at least 7 observations, all
\* identical, gets a forecast with confidence 0 and no fault is raised, for
\* every series length and every forecast_days.
C15_FlatSeriesConfidenceZero ==
  ( /\ call.op = "forecast"
    /\ Get(call.config, "forecast_days", PyNum(30)).n >= 1
    /\ \E p \in HistoryProducts(call.data) : ZeroVariance(QuantitiesOf(call.data, p)) ) =>
    /\ Returned(call.forecast)
    /\ \A p \in HistoryProducts(call.data) :
         ZeroVariance(QuantitiesOf(call.data, p)) =>
           /\ HasKey(Get(call.forecast.value, "forecasts", EmptyDict), p)
           /\ call.forecast.value.d["forecasts"].d[p].d["confidence"] = PyFraction(0, 1)

\* C16: merging changes nothing but the forecast field of the rows of
\* forecasted products: the rows are as many, in the same order, every field
\* a row had keeps its value, and a row whose product has fewer than 7
\* observations is returned as it was, without a forecast field.
C16_MergeFrame ==
  (call.op = "forecast" /\ Returned(call.out)) =>
    /\ Len(call.out.value) = Len(call.data)
    /\ \A k \in 1..Len(call.data) :
         /\ Keys(call.out.value[k]) \subseteq Keys(call.data[k]) \cup {"forecast"}
         /\ \A field \in Keys(call.data[k]) :
              call.out.value[k].d[field] = call.data[k].d[field]
         /\ Cardinality(SameProduct(call.data, k)) < MIN_OBSERVATIONS =>
              /\ call.out.value[k] = call.data[k]
              /\ ~HasKey(call.out.value[k], "forecast")

\* a forecast call has merged a forecast into the seven rows of one product
\* and returned the three rows of another product, in between, as they were
C16_Witness ==
  /\ call.op = "forecast"
  /\ Returned(call.out)
  /\ Len(call.data) = MIN_OBSERVATIONS + 3
  /\ \A k \in 1..MIN_OBSERVATIONS : HasKey(call.out.value[k], "forecast")
  /\ \A k \in (MIN_OBSERVATIONS + 1)..(MIN_OBSERVATIONS + 3) :
       /\ ProductOf(call.data[k]) = "Red Hoodie"
       /\ call.out.value[k] = call.data[k]

\* C17: _apply_forecasting called again on the rows that the first call's
\* forecasts were merged into gives the same outcome as the first call: the
\* same forecast object for every product, from the same slope and intercept.
C17_ForecastDeterministic ==
  (call.op = "forecast" /\ Returned(call.out)) =>
    /\ call.again = call.forecast
    /\ call.forecast = ApplyForecastingWith(call.data, call.config, call.multiplier)
    /\ \A p \in HistoryProducts(call.data) :
         /\ QuantitiesOf(call.out.value, p) = QuantitiesOf(call.data, p)
         /\ CalculateLinearRegression(QuantitiesOf(call.out.value, p))
              = CalculateLinearRegression(QuantitiesOf(call.data, p))

\* the second call has run on rows that carry a forecast of a series with a
\* trend, and has forecast a non-zero quantity again
C17_Witness ==
  /\ call.op = "forecast"
  /\ Returned(call.out)
  /\ Returned(call.again)
  /\ \E k \in 1..Len(call.data) :
       /\ HasKey(call.out.value[k], "forecast")
       /\ CalculateLinearRegression(QuantitiesOf(call.data, ProductOf(call.data[k]))).slope # 0
       /\ call.again.value.d["forecasts"].d[ProductOf(call.data[k])].d["forecast_quantity"].n > 0

\* a forecast_config that the executor can read: a mapping with method,
\* historical_days and forecast_days
UsableForecastConfig(p) ==
  /\ HasKey(p, "forecast_config")
  /\ IsDict(p.d["forecast_config"])
  /\ {"method", "historical_days", "forecast_days"} \subseteq Keys(p.d["forecast_config"])

\* the loaded plan of a plan call gives forecast_config a usable value
GivesForecastConfig ==
  /\ call.service.kind = "text"
  /\ call.service.text.json.t = "dict"
  /\ HasKey(call.service.text.json, "forecast_config")
  /\ UsableForecastConfig(call.service.text.json)

\* C18 (as claimed): every Plan of QueryPlanner.plan and of the mock planner
\* with requires_forecast = true carries a forecast_config with method,
\* historical_days and forecast_days; a parsed plan that omits forecast_config
\* or gives it no usable value gets the default {linear_regression, 90, 30}.
C18_ForecastConfigPresent ==
  /\ \A i \in PlanIntents :
       Truthy(Get(MockQueryPlanning(i), "requires_forecast", PyNone)) =>
         UsableForecastConfig(MockQueryPlanning(i))
  /\ (/\ call.op = "plan"
      /\ Returned(call.out)
      /\ Truthy(Get(call.out.value, "requires_forecast", PyNone))) =>
       /\ UsableForecastConfig(call.out.value)
       /\ ~GivesForecastConfig => call.out.value.d["forecast_config"] = DefaultForecastConfig

(***************************************************************************)
(* Claims on the response (specification Spec)                             *)
(***************************************************************************)
\* 0.6 * intent confidence + 0.4 * (1.0 for non-empty data, else 0.5),
\* clamped to [0, 1], in thousandths; confidences are held in hundredths
WeightedConfidence(i, result) ==
  LET data_factor == IF Get(result, "data", PyList(<<>>)).items # <<>> THEN 100 ELSE 50
  IN Min(1000, Max(0, 6 * Get(i, "confidence", PyNum(0)).n + 4 * data_factor))

\* C19 (as claimed): in every completed response, confidence =
\* 0.6 * intent.confidence + 0.4 * (1.0 if the data is non-empty, else 0.5),
\* clamped to [0, 1].
C19_ConfidenceFormula ==
  (pc = "returned" /\ Status(response) = PyStr("completed")) =>
    10 * Get(response, "confidence", PyNone).n = WeightedConfidence(intent, execution_result)

(***************************************************************************)
(* InsightSynthesizer.  An f-string is a PyFmt of its template and values; *)
(* lines joined by newlines are a PyLines of the lines.                    *)
(***************************************************************************)
PyLines(lines) == [t |-> "lines", items |-> lines]

\* len(v) is defined: v is a str, a list or a dict
HasLen(v) == v.t \in {"str", "list", "dict", "text", "lines"}

\* InsightSynthesizer._summarize_data (data is not empty): a line for each
\* of the first 5 rows that has a product_name, by the first of forecast,
\* quantity, inventory_quantity, orders that the row has
SummarizeData(data) ==
  LET rows == Take(data, 5)
      described(row) ==
        /\ HasKey(row, "product_name")
        /\ \E key \in {"forecast", "quantity", "inventory_quantity", "orders"} : HasKey(row, key)
      line(row) ==
        LET product == row.d["product_name"]
        IN IF HasKey(row, "forecast")
           THEN PyFmt("- {}: Daily velocity {} units, need {} units for next {} days",
                      <<product, Get(row.d["forecast"], "daily_velocity", PyNone),
                        Get(row.d["forecast"], "total_needed", PyNone),
                        Get(row.d["forecast"], "forecast_days", PyNone)>>)
           ELSE IF HasKey(row, "quantity")
           THEN PyFmt("- {}: {} units sold", <<product, row.d["quantity"]>>)
           ELSE IF HasKey(row, "inventory_quantity")
           THEN PyFmt("- {}: {} units in stock", <<product, row.d["inventory_quantity"]>>)
           ELSE PyFmt("- Customer {}: {} orders",
                      <<Get(row, "email", PyStr("unknown")), row.d["orders"]>>)
      kept == SelectSeq(rows, described)
      lines == [k \in 1..Len(kept) |-> line(kept[k])]
      more == IF Len(data) > 5
              THEN <<PyFmt("... and {} more rows", <<PyNum(Len(data) - 5)>>)>> ELSE <<>>
  IN \* forecast.get on a forecast that is not a dict
     IF \E k \in 1..Len(rows) :
          /\ HasKey(rows[k], "product_name") /\ HasKey(rows[k], "forecast")
          /\ ~IsDict(rows[k].d["forecast"])
     THEN Raise("AttributeError")
     ELSE IF lines \o more # <<>> THEN Return(PyLines(lines \o more))
     ELSE Return(PyFmt("{}", <<PyList(Take(data, 3))>>))

\* InsightSynthesizer._extract_forecast_info
ExtractForecastInfo(data) ==
  LET rows == Take(SelectSeq(data, LAMBDA row : HasKey(row, "forecast")), 3)
      line(row) ==
        PyFmt("- {}: {} units needed ({} projected + {} safety stock)",
              <<Get(row, "product_name", PyStr("Unknown")),
                Get(row.d["forecast"], "total_needed", PyNone),
                Get(row.d["forecast"], "forecast_quantity", PyNone),
                Get(row.d["forecast"], "safety_stock", PyNone)>>)
  IN IF rows = <<>> THEN Return(PyStr(""))
     ELSE IF \E k \in 1..Len(rows) : ~IsDict(rows[k].d["forecast"])
     THEN Raise("AttributeError")
     ELSE Return(PyLines(<<PyStr("Forecasting applied:")>>
                         \o [k \in 1..Len(rows) |-> line(rows[k])]))

\* InsightSynthesizer._build_prompt
BuildPrompt(q, i, data) ==
  LET data_summary == SummarizeData(data)
      forecast_info == ExtractForecastInfo(data)
  IN IF Raised(data_summary) THEN data_summary
     ELSE IF Raised(forecast_info) THEN forecast_info
     ELSE Return(PyFmt("Transform this analytics data into business-friendly insights.",
                       <<PyText(q), Get(i, "domain", PyNone), data_summary.value,
                         IF Truthy(forecast_info.value) THEN forecast_info.value
                         ELSE PyStr("No forecasting applied")>>))

\* InsightSynthesizer._generate_empty_insights
GenerateEmptyInsights ==
  PyDict([summary |-> PyStr("No data found for this query"),
          key_findings |-> PyList(<<PyStr("No matching data was found in your store"),
                                    PyStr("Try adjusting the time range or product filters")>>),
          recommendations |-> PyList(<<PyStr("Check if the product name is spelled correctly"),
                                       PyStr("Try expanding the date range for your query")>>),
          data_summary |-> PyDict([total_rows |-> PyNum(0), status |-> PyStr("no_data")])])

\* int(v) of a number v held in units of 1/scale
PyInt(v, scale) == PyNum(Truncate(v.n, scale))

\* InsightSynthesizer._generate_fallback_insights; daily_velocity is held in
\* tenths, the other quantities are whole numbers
GenerateFallbackInsights(q, data, result) ==
  LET first == data[1]
      top == Take(data, 3)
      forecast(row) == Get(row, "forecast", EmptyDict)
      product(row) == Get(row, "product_name", PyStr("Unknown"))
      low_stock == SelectSeq(data, LAMBDA row : Get(row, "inventory_quantity", PyNum(0)).n < 50)
      findings ==
        IF HasKey(first, "forecast")
        THEN [k \in 1..Len(top) |->
                PyFmt("You sell about {} {}s per day",
                      <<PyInt(Get(forecast(top[k]), "daily_velocity", PyNum(0)), 10),
                        product(top[k])>>)]
        ELSE IF HasKey(first, "inventory_quantity")
        THEN IF low_stock = <<>> THEN <<>>
             ELSE <<PyFmt("{} products have low inventory", <<PyNum(Len(low_stock))>>)>>
                  \o [k \in 1..Min(2, Len(low_stock)) |->
                        PyFmt("{} has only {} units in stock",
                              <<product(low_stock[k]),
                                Get(low_stock[k], "inventory_quantity", PyNum(0))>>)]
        ELSE IF HasKey(first, "quantity")
        THEN <<PyFmt("Total of {} units sold", <<PyNum(SumSeq([k \in 1..Len(data) |->
                                       Get(data[k], "quantity", PyNum(0)).n]))>>),
               PyFmt("{} is your top seller with {} units",
                     <<product(first), PyInt(Get(first, "quantity", PyNum(0)), 1)>>)>>
        ELSE <<>>
      recommendations ==
        IF HasKey(first, "forecast")
        THEN [k \in 1..Len(top) |->
                PyFmt("Order approximately {} units of {} for next month",
                      <<PyInt(Get(forecast(top[k]), "total_needed", PyNum(0)), 1),
                        product(top[k])>>)]
        ELSE <<>>
  IN IF data = <<>> THEN Return(GenerateEmptyInsights)
     ELSE IF HasKey(first, "forecast") /\ \E k \in 1..Len(top) : ~IsDict(forecast(top[k]))
     THEN Raise("AttributeError")
     ELSE Return(PyDict(
            [summary |-> PyFmt("Found {} results for your query", <<PyNum(Len(data))>>),
             key_findings |-> PyList(IF findings # <<>> THEN findings
                                     ELSE <<PyStr("Data retrieved successfully")>>),
             recommendations |-> PyList(IF recommendations # <<>> THEN recommendations
                                        ELSE <<PyStr("Review the data to identify trends")>>),
             data_summary |->
               PyDict([total_rows |-> PyNum(Len(data)),
                       forecast_applied |-> Get(result, "forecast_applied", PyBool(FALSE))])]))

\* the cleaning of InsightSynthesizer._parse_response (lines 205-206)
CleanInsightsText(chunks) ==
  Strip(RemoveAll(RemovePair(Strip(chunks), FENCE, "json"), FENCE))

\* faulty variant: total_rows is filled in only when the completion gave none
CompleteInsightsKeepsTotal(loaded, data) ==
  IF ~IsDict(loaded) THEN Raise("AttributeError")
  ELSE LET i1 == SetDefault(loaded, "summary", PyStr("Analysis completed"))
           i2 == SetDefault(i1, "key_findings", PyList(<<>>))
           i3 == SetDefault(i2, "recommendations", PyList(<<>>))
           i4 == SetDefault(i3, "data_summary", EmptyDict)
       IN IF ~IsDict(i4.d["data_summary"]) THEN Raise("TypeError")
          ELSE Return(SetKey(i4, "data_summary",
                             SetDefault(i4.d["data_summary"], "total_rows", PyNum(Len(data)))))

\* the try block of InsightSynthesizer._parse_response on the loaded value
CompleteInsights(loaded, data) ==
  IF ~IsDict(loaded) THEN Raise("AttributeError")
  ELSE LET i1 == SetDefault(loaded, "summary", PyStr("Analysis completed"))
           i2 == SetDefault(i1, "key_findings", PyList(<<>>))
           i3 == SetDefault(i2, "recommendations", PyList(<<>>))
           i4 == SetDefault(i3, "data_summary", EmptyDict)
       IN \* insights["data_summary"]["total_rows"] = len(data)
          IF ~IsDict(i4.d["data_summary"]) THEN Raise("TypeError")
          ELSE Return(SetKey(i4, "data_summary",
                             SetKey(i4.d["data_summary"], "total_rows", PyNum(Len(data)))))

\* InsightSynthesizer._parse_response
ParseInsightsResponse(text, data) ==
  LET loaded == JsonLoads(CleanInsightsText(text.chunks), text.json)
  IN IF Raised(loaded) THEN GenerateFallbackInsights(<<>>, data, EmptyDict)
     ELSE CompleteInsights(loaded.value, data)

\* the try block of InsightSynthesizer.synthesize
SynthesizeTry(data, service) ==
  LET parsed == IF service.kind = "raise" THEN Raise(service.exc)
                  ELSE IF service.kind = "empty" THEN Raise("IndexError")
                  ELSE ParseInsightsResponse(service.text, data)
  IN \* len(insights.get("key_findings", [])) of the log call
     IF Returned(parsed) /\ ~HasLen(Get(parsed.value, "key_findings", PyList(<<>>)))
     THEN Raise("TypeError")
     ELSE parsed

\* faulty variant: synthesize without its except clause
SynthesizeUncaught(q, i, p, ql, result, service) ==
  LET data == Get(result, "data", PyList(<<>>)).items
  IN IF data = <<>> THEN Return(GenerateEmptyInsights) ELSE SynthesizeTry(data, service)

\* InsightSynthesizer.synthesize
Synthesize(q, i, p, ql, result, service) ==
  LET data == Get(result, "data", PyList(<<>>)).items
      prompt == BuildPrompt(q, i, data)
      tried == SynthesizeTry(data, service)
  IN IF data = <<>> THEN Return(GenerateEmptyInsights)
     ELSE IF Raised(prompt) THEN prompt
     ELSE IF Raised(tried) THEN GenerateFallbackInsights(q, data, result)
     ELSE tried

(***************************************************************************)
(* Synthesize calls (specification SpecSynthesis)                          *)
(***************************************************************************)
\* the JSON documents of a synthesis completion
InsightDocs ==
  {MakeDict([summary |-> su, key_findings |-> kf, data_summary |-> ds]) :
     su \in {Absent, PyStr("You sell about 8 Blue T-Shirts per day")},
     kf \in {Absent, PyList(<<PyStr("Sales are steady")>>), PyStr("Sales are steady"), PyNone},
     ds \in {Absent, EmptyDict, PyDict([total_rows |-> PyNum(999)]), PyNone, PyList(<<>>),
             PyStr("5 products")}}
  \cup NonObjectDocs

SynthesisServices ==
  {ServiceRaises, ServiceEmpty}
  \cup {ServiceText(JsonText(l, j)) :
          l \in {BareLayout, FencedLayout, <<PROSE>>, <<PROSE, NL, JSONDOC>>, <<>>},
          j \in InsightDocs}

\* the execution result of QueryExecutor.execute for rows
ResultOf(rows, forecast_applied) ==
  PyDict([data |-> PyList(rows), forecast_applied |-> PyBool(forecast_applied),
          row_count |-> PyNum(Len(rows)), query_executed |-> PyText(<<>>)])

\* the execution results a synthesize call is given: results of execute in
\* demo mode, and results for the rows of the forecast engine
SynthesisResults ==
  {Execute(GetDefaultQuery(p).value, p, demo_mode,
           [k \in 1..3 |-> [base |-> 9, noise |-> -2000, price |-> 35]]).value :
     p \in {MockQueryPlanning(i) : i \in PlanIntents}, demo_mode \in BOOLEAN}
  \cup {ResultOf(ForecastEngine(data, DefaultForecastConfig, SAFETY_STOCK_MULTIPLIER).value, TRUE) :
          data \in ForecastData}
  \cup {ResultOf(data, FALSE) :
          data \in {GenerateInventoryData, GenerateCustomerData, GenerateRankingData(5),
                    SelectSeq(GenerateInventoryData,
                              LAMBDA row : row.d["inventory_quantity"].n >= 50),
                    SelectSeq(GenerateInventoryData,
                              LAMBDA row : row.d["inventory_quantity"].n < 10)}}

\* InsightSynthesizer.synthesize(question, intent, plan, query, execution_result)
CallSynthesize ==
  /\ call = NoCall
  /\ \E result \in SynthesisResults, service \in SynthesisServices :
       call' = [op |-> "synthesize", result |-> result, service |-> service,
                out |-> Synthesize(<<"sales">>, DefaultIntent, EmptyDict, PyText(<<>>),
                                   result, service)]
  /\ UnchangedRequest

\* an execution result without rows, in the shape of _generate_synthetic_data
EmptyMockResult ==
  PyDict([data |-> PyList(<<>>), forecast_applied |-> PyBool(FALSE), row_count |-> PyNum(0)])

\* AgentOrchestrator._mock_insight_synthesis(question, intent, execution_result)
\* on the synthetic data of the intent's plan, or on a result without rows
CallMockSynthesize ==
  /\ call = NoCall
  /\ \E q \in DomainQuestions, draws \in [1..Len(MockProducts) -> RandomDraws],
        empty \in BOOLEAN :
       LET i == MockIntentClassification(q)
           result == IF empty THEN EmptyMockResult
                     ELSE GenerateSyntheticData(MockQueryPlanning(i), draws)
       IN call' = [op |-> "mock_synthesize", question |-> q, intent |-> i,
                   result |-> result, out |-> Return(MockInsightSynthesis(q, i, result))]
  /\ UnchangedRequest

NextSynthesis ==
  \/ CallSynthesize
  \/ CallMockSynthesize
  \/ CallReturns

SpecSynthesis == Init /\ [][NextSynthesis]_vars

(***************************************************************************)
(* Claims on synthesize (specification SpecSynthesis)                      *)
(***************************************************************************)
\* the rows of the synthesize call
SynthesisRows == call.result.d["data"].items

\* the completion of the synthesize call cannot be used: the service raised
\* or answered with no content, or its text is not valid JSON after the
\* cleaning, or the JSON is not an insights object (not an object, or
\* data_summary is not an object, or key_findings has no length)
SynthesisUnusable ==
  \/ call.service.kind # "text"
  \/ CleanInsightsText(call.service.text.chunks) # <<JSONDOC>>
  \/ ~IsDict(call.service.text.json)
  \/ ~IsDict(Get(call.service.text.json, "data_summary", EmptyDict))
  \/ ~HasLen(Get(call.service.text.json, "key_findings", PyList(<<>>)))

\* the templates of the findings of an insights object
FindingTemplates(ins) ==
  [k \in 1..Len(ins.d["key_findings"].items) |->
     IF ins.d["key_findings"].items[k].t = "fstr" THEN ins.d["key_findings"].items[k].fmt
     ELSE ins.d["key_findings"].items[k].s]

C21_TotalRowsIsRowCount ==
  call.op = "synthesize" =>
    /\ Returned(call.out)
    /\ IsDict(call.out.value)
    /\ IsDict(Get(call.out.value, "data_summary", PyNone))
    /\ Get(call.out.value.d["data_summary"], "total_rows", PyNone) = PyNum(Len(SynthesisRows))

\* a completion that claims 999 rows was parsed and returned with the true
\* row count of a non-empty result
C21_Witness ==
  /\ call.op = "synthesize"
  /\ call.service.kind = "text"
  /\ ~SynthesisUnusable
  /\ Get(call.service.text.json, "data_summary", PyNone) = PyDict([total_rows |-> PyNum(999)])
  /\ SynthesisRows # <<>>
  /\ Returned(call.out)
  /\ call.out.value.d["summary"] = PyStr("You sell about 8 Blue T-Shirts per day")
  /\ call.out.value.d["data_summary"].d["total_rows"] = PyNum(Len(SynthesisRows))

\* C22 (as claimed): for empty data synthesize returns the fixed no-data
\* object with data_summary.total_rows = 0, whatever the completion service
\* would answer, and the orchestrator's mock synthesis returns that same
\* object.
C22_NoDataObject ==
  /\ (call.op = "synthesize" /\ SynthesisRows = <<>>) =>
       /\ call.out = Return(GenerateEmptyInsights)
       /\ call.out.value.d["data_summary"].d["total_rows"] = PyNum(0)
  /\ (call.op = "mock_synthesize" /\ SynthesisRows = <<>>) =>
       /\ call.out.value.d["data_summary"].d["total_rows"] = PyNum(0)
       /\ call.out = Synthesize(call.question, call.intent, EmptyDict, PyText(<<>>),
                                call.result, ServiceRaises)

(***************************************************************************)
(* Claims on the pipeline (specification Spec)                             *)
(***************************************************************************)
\* C23: for a question that contains a forecast keyword, the intent is
\* inventory_forecasting with requires_forecast = true, the plan has
\* requires_forecast = true, every execution row carries a forecast object,
\* and, unless a stage raised, the response has status completed and
\* metadata.forecast_applied = true.
C23_ForecastQuestionCompletes ==
  AnyWordIn(ForecastWords, question) =>
    /\ intent # Unset =>
         /\ intent.d["domain"] = PyStr("inventory_forecasting")
         /\ intent.d["requires_forecast"] = PyBool(TRUE)
    /\ plan # Unset => Get(plan, "requires_forecast", PyNone) = PyBool(TRUE)
    /\ execution_result # Unset =>
         /\ execution_result.d["forecast_applied"] = PyBool(TRUE)
         /\ execution_result.d["data"].items # <<>>
         /\ \A k \in 1..Len(execution_result.d["data"].items) :
              /\ HasKey(execution_result.d["data"].items[k], "forecast")
              /\ IsDict(execution_result.d["data"].items[k].d["forecast"])
    /\ (pc = "returned" /\ exc = PyNone) =>
         /\ Status(response) = PyStr("completed")
         /\ response.d["intent"] = intent
         /\ response.d["metadata"].d["forecast_applied"] = PyBool(TRUE)

\* the request "stock next month", which matches the forecast and the stock
\* words, has completed with a forecast on the row of Blue T-Shirt
C23_Witness ==
  /\ pc = "returned"
  /\ question = <<"stock", "next month">>
  /\ Status(response) = PyStr("completed")
  /\ response.d["metadata"].d["forecast_applied"] = PyBool(TRUE)
  /\ execution_result.d["data"].items[1].d["product_name"] = PyStr("Blue T-Shirt")
  /\ HasKey(execution_result.d["data"].items[1], "forecast")

(***************************************************************************)
(* Claims on the shapes of the artifacts (specification SpecStages)        *)
(***************************************************************************)
\* the keys of a Plan: forecast_config goes with requires_forecast
PlanKeys(p) ==
  {"data_sources", "primary_metric", "aggregations", "filters", "requires_forecast", "group_by"}
  \cup (IF Truthy(Get(p, "requires_forecast", PyNone)) THEN {"forecast_config"} ELSE {})

IntentKeys == {"domain", "confidence", "entities", "time_range", "requires_forecast"}

\* the keys of an execution result of the deterministic orchestrator
MockResultKeys ==
  Keys(GenerateSyntheticData(MockPlans["sales_analysis"],
                             [k \in 1..Len(MockProducts) |-> [dq |-> 0, dr |-> 0, price |-> 20]]))

\* C24 (as claimed): an Intent, a Plan and an ExecutionResult have the same
\* keys whether a completion-backed stage or the deterministic orchestrator
\* produced them: a Plan has data_sources, primary_metric, aggregations,
\* filters, requires_forecast and group_by, plus forecast_config when
\* forecasting.
C24_SameShapes ==
  /\ (call.op \in {"classify", "mock_classify"} /\ Returned(call.out)) =>
       IntentKeys \subseteq Keys(call.out.value)
  /\ (call.op \in {"plan", "mock_plan"} /\ Returned(call.out)) =>
       PlanKeys(call.out.value) \subseteq Keys(call.out.value)
  /\ (call.op = "execute" /\ Returned(call.out) /\ ~HasKey(call.out.value, "error")) =>
       Keys(call.out.value) = MockResultKeys

(***************************************************************************)
(* Concurrent requests (specification SpecConcurrent).  The service        *)
(* process runs one task per request; each task has the frame of its       *)
(* process_query call (arguments and locals).  The tasks share the process *)
(* and with it the generator of the random module, which every draw of     *)
(* _generate_synthetic_data advances.  The tasks take their stages in any  *)
(* order.                                                                  *)
(***************************************************************************)
\* the number of simultaneous tasks
MaxTasks == 2
Tasks == 1..MaxTasks

\* the states of the shared generator: the draws alternate with its state
RngStates == {0, 1}
\* the draws of the 5 products of one _generate_synthetic_data call that
\* starts in state s, and the state it leaves behind
RngDraws(s) ==
  [k \in 1..Len(MockProducts) |->
     IF (s + k) % 2 = 0 THEN [dq |-> -50, dr |-> 50, price |-> 20]
     ELSE [dq |-> 50, dr |-> 0, price |-> 80]]
RngAfter(s) == (s + Len(MockProducts)) % 2

\* the requests that arrive
ConcurrentRequests ==
  {[question |-> <<"Forecast">>, shop_domain |-> "demo-store.myshopify.com"],
   [question |-> <<"top">>, shop_domain |-> "other-store.myshopify.com"]}

\* the frame of a task that runs no request
IdleFrame ==
  [pc |-> "idle", question |-> <<>>, shop_domain |-> "", intent |-> Unset, plan |-> Unset,
   query |-> Unset, execution_result |-> Unset, insights |-> Unset, response |-> Unset]

\* faulty variant: the artifact is kept on an object that all tasks share
StoreShared(frames, t, name, value) ==
  [u \in DOMAIN frames |-> [frames[u] EXCEPT ![name] = value]]

\* name = value in the frame of task t: an assignment to a local variable
StoreLocal(frames, t, name, value) ==
  [frames EXCEPT ![t][name] = value]

\* the frame of task t moves on to position next
Goto(frames, t, next) == [frames EXCEPT ![t].pc = next]

Frame(t) == server.frames[t]

\* the variables of the other specifications stay as they are
UnchangedSingleRequest ==
  UNCHANGED <<pc, question, shop_domain, intent, plan, query, execution_result,
              insights, exc, response, calls, call>>

\* the process starts: the random module seeds its generator
StartServer ==
  /\ server = ServerDown
  /\ \E seed \in RngStates :
       server' = [started |-> TRUE, rng |-> seed, frames |-> [t \in Tasks |-> IdleFrame]]
  /\ UnchangedSingleRequest

\* main.py process_query: a request arrives and a task enters
\* orchestrator.process_query of an orchestrator of its own
TaskStart(t) ==
  /\ server.started
  /\ Frame(t).pc = "idle"
  /\ \E r \in ConcurrentRequests :
       server' = [server EXCEPT !.frames =
                    Goto(StoreLocal(StoreLocal(@, t, "question", r.question),
                                    t, "shop_domain", r.shop_domain),
                         t, "classify")]
  /\ UnchangedSingleRequest

\* the stage of task t at position at assigns value to name
TaskStage(t, at, name, value, next) ==
  /\ server.started
  /\ Frame(t).pc = at
  /\ server' = [server EXCEPT !.frames = Goto(StoreLocal(@, t, name, value), t, next)]
  /\ UnchangedSingleRequest

TaskClassify(t) ==
  TaskStage(t, "classify", "intent", MockIntentClassification(Frame(t).question), "plan")

TaskPlan(t) ==
  TaskStage(t, "plan", "plan", MockQueryPlanning(Frame(t).intent), "generate")

TaskGenerate(t) ==
  TaskStage(t, "generate", "query",
            MockShopifyqlGeneration(Frame(t).intent, Frame(t).plan), "execute")

\* _generate_synthetic_data draws from the shared generator
TaskExecute(t) ==
  /\ server.started
  /\ Frame(t).pc = "execute"
  /\ server' = [server EXCEPT
                  !.frames = Goto(StoreLocal(@, t, "execution_result",
                                             GenerateSyntheticData(Frame(t).plan,
                                                                   RngDraws(server.rng))),
                                  t, "synthesize"),
                  !.rng = RngAfter(@)]
  /\ UnchangedSingleRequest

TaskSynthesize(t) ==
  TaskStage(t, "synthesize", "insights",
            MockInsightSynthesis(Frame(t).question, Frame(t).intent,
                                 Frame(t).execution_result), "respond")

TaskRespond(t) ==
  TaskStage(t, "respond", "response",
            CompletedResponse(Frame(t).shop_domain, Frame(t).intent, Frame(t).query,
                              Frame(t).insights, Frame(t).execution_result), "returned")

\* a stage of task t raises (an injected fault): the except clause answers
TaskFails(t) ==
  /\ server.started
  /\ Frame(t).pc \in {"classify", "plan", "generate", "execute", "synthesize"}
  /\ server' = [server EXCEPT !.frames =
                  Goto(StoreLocal(@, t, "response", FailedResponse(PyStr("stage unavailable"))),
                       t, "returned")]
  /\ UnchangedSingleRequest

\* main.py process_query returns the result: the frame is gone
TaskFinish(t) ==
  /\ server.started
  /\ Frame(t).pc = "returned"
  /\ server' = [server EXCEPT !.frames[t] = IdleFrame]
  /\ UnchangedSingleRequest

NextConcurrent ==
  \/ StartServer
  \/ \E t \in Tasks : TaskStart(t)
  \/ \E t \in Tasks : TaskClassify(t)
  \/ \E t \in Tasks : TaskPlan(t)
  \/ \E t \in Tasks : TaskGenerate(t)
  \/ \E t \in Tasks : TaskExecute(t)
  \/ \E t \in Tasks : TaskSynthesize(t)
  \/ \E t \in Tasks : TaskRespond(t)
  \/ \E t \in Tasks : TaskFails(t)
  \/ \E t \in Tasks : TaskFinish(t)

SpecConcurrent == Init /\ [][NextConcurrent]_vars

\* the responses of process_query(q, sd) when it runs alone, from any state
\* of the generator
SoloResponses(q, sd) ==
  {LET i == MockIntentClassification(q)
       p == MockQueryPlanning(i)
       result == GenerateSyntheticData(p, RngDraws(s))
   IN CompletedResponse(sd, i, MockShopifyqlGeneration(i, p),
                        MockInsightSynthesis(q, i, result), result) : s \in RngStates}
  \cup {FailedResponse(PyStr("stage unavailable"))}

\* C25: whatever the interleaving of the stages of simultaneous requests,
\* the intent, plan, query, execution rows and insights of a task are those
\* of its own question (and of draws of the generator), and its response is
\* one that the request could get when run alone.
C25_RequestsIndependent ==
  server.started =>
    \A t \in Tasks :
      LET f == Frame(t)
      IN /\ f.intent # Unset => f.intent = MockIntentClassification(f.question)
         /\ f.plan # Unset => f.plan = MockQueryPlanning(MockIntentClassification(f.question))
         /\ f.query # Unset => f.query = MockShopifyqlGeneration(f.intent, f.plan)
         /\ f.execution_result # Unset =>
              f.execution_result \in {GenerateSyntheticData(f.plan, RngDraws(s)) : s \in RngStates}
         /\ f.insights # Unset =>
              f.insights = MockInsightSynthesis(f.question, f.intent, f.execution_result)
         /\ f.pc = "returned" => f.response \in SoloResponses(f.question, f.shop_domain)
         /\ f.pc = "idle" => f = IdleFrame

\* task 2 has completed a forecast request of one shop while task 1, which
\* asks a ranking question for the other shop, is between its stages
C25_Witness ==
  /\ server.started
  /\ Frame(1).pc = "synthesize"
  /\ Frame(1).question = <<"top">>
  /\ Frame(1).shop_domain = "other-store.myshopify.com"
  /\ Frame(2).pc = "returned"
  /\ Frame(2).question = <<"Forecast">>
  /\ Frame(2).shop_domain = "demo-store.myshopify.com"
  /\ Status(Frame(2).response) = PyStr("completed")
  /\ Frame(2).response.d["metadata"].d["forecast_applied"] = PyBool(TRUE)
  /\ Frame(1).execution_result.d["forecast_applied"] = PyBool(FALSE)

(***************************************************************************)
(* Claims on the deterministic classifier (specification SpecStages)       *)
(***************************************************************************)
\* the keywords of the classifier that occur in a question
WordsOf(q) == UNION {FragmentWords(q[k]) : k \in 1..Len(q)}

\* C26: the deterministic classifier gives the domain of the first rule that
\* matches, in the order forecast, stock, customer, ranking words, else
\* sales_analysis; requires_forecast is true exactly for
\* inventory_forecasting, with time_range next_30_days then and
\* last_30_days otherwise.
C26_ClassifierPrecedence ==
  call.op = "mock_classify" =>
    LET words == WordsOf(call.question)
        i == call.out.value
        forecast == words \cap ForecastWords # {}
        stock == words \cap StockWords # {}
        customer == words \cap CustomerWords # {}
        rank == words \cap RankWords # {}
    IN /\ forecast => i.d["domain"] = PyStr("inventory_forecasting")
       /\ (~forecast /\ stock) => i.d["domain"] = PyStr("inventory_status")
       /\ (~forecast /\ ~stock /\ customer) => i.d["domain"] = PyStr("customer_analysis")
       /\ (~forecast /\ ~stock /\ ~customer /\ rank) => i.d["domain"] = PyStr("product_ranking")
       /\ (~forecast /\ ~stock /\ ~customer /\ ~rank) => i.d["domain"] = PyStr("sales_analysis")
       /\ i.d["requires_forecast"] = PyBool(i.d["domain"] = PyStr("inventory_forecasting"))
       /\ i.d["time_range"] = IF i.d["domain"] = PyStr("inventory_forecasting")
                              THEN PyStr("next_30_days") ELSE PyStr("last_30_days")

\* the question "top Customer" matches the customer and the ranking words
\* and is classified as customer_analysis
C26_Witness ==
  /\ call.op = "mock_classify"
  /\ call.question = <<"top", "Customer">>
  /\ call.out.value.d["domain"] = PyStr("customer_analysis")
  /\ call.out.value.d["requires_forecast"] = PyBool(FALSE)

\* the first n distinct products of rows, in the order of their first row
RECURSIVE DistinctProducts(_, _, _)
DistinctProducts(rows, seen, n) ==
  IF rows = <<>> \/ n = 0 THEN <<>>
  ELSE LET product == Get(Head(rows), "product_name", PyStr("Unknown"))
       IN IF product \in seen THEN DistinctProducts(Tail(rows), seen, n)
          ELSE <<product>> \o DistinctProducts(Tail(rows), seen \cup {product}, n - 1)

\* C27 (as claimed): when the rule-based fallback runs on data whose first
\* row carries a forecast, the narrative has one finding and one
\* recommendation for each of the first 3 distinct products of the data.
C27_NarrativePerProduct ==
  ( /\ call.op = "synthesize"
    /\ SynthesisRows # <<>>
    /\ HasKey(SynthesisRows[1], "forecast")
    /\ SynthesisUnusable ) =>
      LET products == DistinctProducts(SynthesisRows, {}, 3)
          findings == call.out.value.d["key_findings"].items
          recommendations == call.out.value.d["recommendations"].items
      IN /\ Len(findings) = Len(products)
         /\ Len(recommendations) = Len(products)
         /\ \A k \in 1..Len(products) :
              /\ findings[k].args[2] = products[k]
              /\ recommendations[k].args[2] = products[k]

(***************************************************************************)
(* Claims on the execution result (specification SpecStages)               *)
(***************************************************************************)
\* C28: in every result of execute, forecast_applied is true exactly when
\* plan.requires_forecast is truthy and no exception occurred, whether or
\* not a row received a forecast; every error result has forecast_applied =
\* false.
C28_ForecastAppliedFlag ==
  call.op = "execute" =>
    /\ Returned(call.out)
    /\ call.out.value.d["forecast_applied"].t = "bool"
    /\ call.out.value.d["forecast_applied"].b
         <=> ( /\ IsDict(call.plan)
               /\ Truthy(Get(call.plan, "requires_forecast", PyNone))
               /\ ~HasKey(call.out.value, "error") )
    /\ HasKey(call.out.value, "error") => call.out.value.d["forecast_applied"] = PyBool(FALSE)

\* execute on the inventory rows (one observation per product) for a plan
\* that asks for a forecast: no row has a forecast and forecast_applied is true
C28_Witness ==
  /\ call.op = "execute"
  /\ call.demo_mode
  /\ Returned(call.out)
  /\ call.out.value.d["forecast_applied"] = PyBool(TRUE)
  /\ Len(call.out.value.d["data"].items) = Len(InventoryProducts)
  /\ \A k \in 1..Len(call.out.value.d["data"].items) :
       /\ HasKey(call.out.value.d["data"].items[k], "inventory_quantity")
       /\ ~HasKey(call.out.value.d["data"].items[k], "forecast")

\* C29: in every result of execute (success or error) and of the
\* orchestrator's synthetic data generator, row_count is the length of data;
\* and the completed response built on a result has metadata.data_points
\* equal to that length.
C29_RowCountIsLength ==
  /\ (call.op \in {"execute", "mock_data"}) =>
       /\ Returned(call.out)
       /\ call.out.value.d["row_count"] = PyNum(Len(call.out.value.d["data"].items))
  /\ call.op = "mock_data" =>
       LET i == MockIntentClassification(<<"sales">>)
           completed == CompletedResponse("demo-store.myshopify.com", i,
                                          MockShopifyqlGeneration(i, call.plan),
                                          MockInsightSynthesis(<<"sales">>, i, call.out.value),
                                          call.out.value)
       IN completed.d["metadata"].d["data_points"] = call.out.value.d["row_count"]
  /\ (pc = "returned" /\ Status(response) = PyStr("completed")) =>
       /\ response.d["metadata"].d["data_points"] = execution_result.d["row_count"]
       /\ execution_result.d["row_count"] = PyNum(Len(execution_result.d["data"].items))

\* the generator has returned 5 rows for a forecasting plan, with row_count 5
C29_Witness ==
  /\ call.op = "mock_data"
  /\ Get(call.plan, "requires_forecast", PyNone) = PyBool(TRUE)
  /\ call.out.value.d["row_count"] = PyNum(5)
  /\ Len(call.out.value.d["data"].items) = 5
  /\ HasKey(call.out.value.d["data"].items[5], "forecast")

\* C30 (as claimed): whenever synthesize returns the rule-based fallback
\* insights, their data_summary.forecast_applied equals forecast_applied of
\* the execution result, whether the completion service raised or its text
\* could not be parsed as JSON.
C30_FallbackForecastApplied ==
  (call.op = "synthesize" /\ SynthesisRows # <<>> /\ SynthesisUnusable) =>
    /\ Returned(call.out)
    /\ Get(call.out.value.d["data_summary"], "forecast_applied", PyNone)
         = Get(call.result, "forecast_applied", PyBool(FALSE))

====
